---- MODULE Spec2Model ----
(***************************************************************************)
(* Verification model of md-translation-gpt.                               *)
(*                                                                         *)
(* Part 1: ProofreadTranslatorImpl.translate, in its two versions:         *)
(*   "chain" - domain/service/translator/proofread_translator_impl.ts,     *)
(*             runnable chains with withRetry                              *)
(*             (src/src/domain/service/md_prosessor/md_processor_impl.ts   *)
(*              lines 610-670);                                            *)
(*   "loop"  - the hand-written retry loops (src/unnamed/part_010 with     *)
(*             translateToJp of src/unnamed/part_012).                     *)
(* Part 2: FileWalker.walk with the hash store (src/unnamed/part_020).     *)
(*                                                                         *)
(* Texts are numbers: 0 is the empty string '', 1..MaxText are distinct    *)
(* non-empty texts.  The code only ever compares a correctness score with  *)
(* the configured threshold, so scores are measured on a scale that puts   *)
(* the threshold at 1: 0 stands for the scores below the threshold, 1 for  *)
(* a score equal to it and 2..MaxScore for scores above it.  The critique  *)
(* string (`error`) of an oracle answer influences no branch and is left   *)
(* out of records.                                                         *)
(***************************************************************************)
EXTENDS Integers, Sequences, FiniteSets, TLC

\* ---------------------------------------------------------------- bounds
MaxText == 1
MaxScore == 2
NumFiles == 5
MaxData == 2
MaxOracleCalls == 1
MaxBlocks == 3
MaxLines == 4
MaxDocLen == 4
MaxParaLines == 3
MaxCells == 3

\* ------------------------------------------------------ program constants
MAX_TRANSLATION_ATTEMPTS == 5
MAX_PROOFREAD_ATTEMPTS == 5
MAX_LLM_RETRY_ATTEMPTS == 5
LLM_LOOP_TRIES == 5
RETRY_CORRECTNESS_LIMIT == 5
EMPTY == 0
\* Config.TRANSLATION_CORRECTNESS_THRESHOLD (set from request.accuracy), on
\* the scale of Scores
TRANSLATION_CORRECTNESS_THRESHOLD == 1

Texts == 1..MaxText
Scores == 0..MaxScore
Impls == {"chain", "loop"}
\* what one oracle invocation can end in, other than a parsed answer:
\* unparseable output (OutputParserException / SyntaxError), a transport
\* timeout, or any other error (e.g. an HTTP 401)
FaultKinds == {"malformed", "timeout", "other"}

VARIABLES
  impl,              \* which version of translate runs
  threshold,         \* Config.TRANSLATION_CORRECTNESS_THRESHOLD
  pc,                \* "etoj" | "proofread" | "done" | "failed"
  etojOutput,        \* the parsed answer of the translation call
  ja,                \* loop: `let ja`; chain: proofreadInput.ja
  histories,         \* loop: `histories`; chain: proofreadInput.histories
  i,                 \* the proofreading loop counter
  retryCorrectness,  \* loop: the outer loop counter
  tries,             \* tries already spent on the oracle call in progress
  answer,            \* chain: `answer`
  result,            \* the value translate returned
  \* ---- observers (not program state)
  rounds,            \* proofreading calls started so far
  etojInvocations,   \* oracle invocations made for translation
  proofInvocations,  \* oracle invocations made for proofreading
  accepted,          \* some round has scored >= threshold
  roundLog,          \* per finished round: candidate sent, answer received
  faulted            \* some oracle invocation had to be tried again

translateVars == <<impl, threshold, pc, etojOutput, ja, histories, i,
                   retryCorrectness, tries, answer, result, rounds,
                   etojInvocations, proofInvocations, accepted, roundLog,
                   faulted>>

\* ---- FileWalker
VARIABLES
  srcData,        \* source tree: the content of each enumerated path
  outFiles,       \* output tree: the file at each mirrored path
  rows,           \* the hash store: relative path -> stored hash
  IS_OVERWRITE,   \* Config.IS_OVERWRITE of the run in progress
  SYNC_DELETE,    \* Config.SYNC_DELETE of the run in progress
  srcGone,        \* source tree: the paths that no longer exist in it
  wpc,            \* "idle" | "loop" | "processing" | "saving" | "aborted"
  index,          \* walk: `index`, the number of paths visited so far
  data,           \* walk: `data` of the file being processed
  mdHash,         \* walk: `mdHash` fetched for the file being processed
  ctx,            \* the AppContext: ctx.file and ctx.nodeNo
  \* ---- observers (not program state)
  oracleCalls,    \* per path: oracle calls made for it in this walk
  visit,          \* per path: what this walk did with it
  lastOk          \* per path: the content last translated and recorded

walkVars == <<srcData, outFiles, rows, IS_OVERWRITE, SYNC_DELETE, srcGone,
              wpc, index, data, mdHash, ctx, oracleCalls, visit, lastOk>>

\* ---- JsonClient<MdHash>, the hash store
VARIABLES
  _rows,          \* JsonClient._rows: undefined, or the Map in insertion order
  jsonFile,       \* the file at jsonPath: absent, or the array it holds
  \* ---- observers (not program state)
  latest,         \* per path: the hash last saved and not deleted since
  storeLog        \* whether a record was ever renewed / ever deleted, and
                  \* how often this client has read the file

storeVars == <<_rows, jsonFile, latest, storeLog>>

\* ---- MdProcessorImpl.process (parseMd, translateNodes, recreateAst)
VARIABLES
  quoteOriginal,     \* ctx.quoteOriginal
  doc,               \* the document: the kind of each block under the root
  unpositioned,      \* the block whose node has no `position` (0: none)
  children,          \* result.ast.children, the child list of the root
  tnodes,            \* result.tnodes
  dpc,               \* "parse" | "translate" | "recreate" | "done" |
                     \* "failed"
  tindex,            \* the number of tnodes translateNodes has been through
  chunkTnode,        \* translateNodes: `chunkTnode` (0 is undefined)
  translatedChunks,  \* translateNodes: `translatedChunks`
  \* ---- observers (not program state)
  calls              \* per tnode: the text sent to the translator and what
                     \* translateHeadings / translateParagraph made of it

docVars == <<quoteOriginal, doc, unpositioned, children, tnodes, dpc, tindex,
             chunkTnode, translatedChunks, calls>>

\* ---- MdxProcessorImpl.translateNodes, for one admonition block
VARIABLES
  lines,             \* tnode.targetText.split(/\r?\n/)
  mpc,               \* "lines" | "done"
  lineNo,            \* the number of lines the loop has been through
  textLines,         \* translateNodes: `text`, the positions of the lines gathered
  replaceNodes,      \* translateNodes: `replaceNodes`
  \* ---- observers (not program state)
  bodies             \* the bodies sent to the translator and its answers

mdxVars == <<lines, mpc, lineNo, textLines, replaceNodes, bodies>>

\* ---- MdProcessorImpl.makeTargetTextWithContext, for one node
VARIABLES
  eot,                    \* md.length
  position,               \* node.position: its start and end offsets
  start,                  \* `start`, an offset in md
  end,                    \* `end`, an offset in md
  targetTextWithContext,  \* the window md.substring(from, to)
  tokens,                 \* `tokens`, what countToken last reported
  cpc,                    \* "loop" | "returned"
  \* ---- observers (not program state)
  counted,                \* the window `tokens` was reported for
  iterations              \* the passes through the loop so far

contextVars == <<eot, position, start, end, targetTextWithContext, tokens,
                 cpc, counted, iterations>>

\* ---- parseMd and translateNodes, for one paragraph longer than the ceiling
VARIABLES
  para,              \* the paragraph: the lengths of its lines
  spc,               \* "parsed" | "chunks" | "joined"
  pageContents,      \* the targetText of the chunks parseMd pushed
  pushedChunks,      \* translateNodes: `translatedChunks`
  joinedText         \* translatedChunks.join('\n')

splitVars == <<para, spc, pageContents, pushedChunks, joinedText>>

\* ---- ReverseCheckTranslatorImpl.translate, for one block
VARIABLES
  caches,            \* `caches` of the pass of the outer loop in progress
  rpc,               \* "rounds" | "choice" | "done" | "failed"
  pass,              \* the outer loop counter
  lastChoice,        \* `lastChoice`, what choiceTranslation parsed
  returned           \* the value translate returned

reverseVars == <<caches, rpc, pass, lastChoice, returned>>

\* ---- IpynbProcessorImpl.process, for one notebook
VARIABLES
  ipynbData,         \* `data`, the text of the .ipynb file
  json,              \* `json`, the object JSON.parse returned
  ipc,               \* "start" | "cells" | "returned" | "failed"
  cellNo,            \* the cell the for-of loop is at, from 1
  ipynbOut,          \* the text process returned
  \* ---- observers (not program state)
  processCalls       \* the calls of this.mdProcessor.process, in order

ipynbVars == <<ipynbData, json, ipc, cellNo, ipynbOut, processCalls>>

vars == <<translateVars, walkVars, storeVars, docVars, mdxVars,
    contextVars, splitVars, reverseVars, ipynbVars>>

\* what the actions of one component leave alone
nonTranslateVars == <<walkVars, storeVars, docVars, mdxVars, contextVars,
    splitVars, reverseVars, ipynbVars>>
nonWalkVars == <<translateVars, storeVars, docVars, mdxVars, contextVars,
    splitVars, reverseVars, ipynbVars>>
nonStoreVars == <<translateVars, walkVars, docVars, mdxVars, contextVars,
    splitVars, reverseVars, ipynbVars>>
nonDocVars == <<translateVars, walkVars, storeVars, mdxVars, contextVars,
    splitVars, reverseVars, ipynbVars>>
nonMdxVars == <<translateVars, walkVars, storeVars, docVars, contextVars,
    splitVars, reverseVars, ipynbVars>>
nonContextVars == <<translateVars, walkVars, storeVars, docVars, mdxVars,
    splitVars, reverseVars, ipynbVars>>
nonSplitVars == <<translateVars, walkVars, storeVars, docVars, mdxVars,
    contextVars, reverseVars, ipynbVars>>
nonReverseVars == <<translateVars, walkVars, storeVars, docVars, mdxVars,
    contextVars, splitVars, ipynbVars>>
nonIpynbVars == <<translateVars, walkVars, storeVars, docVars, mdxVars,
    contextVars, splitVars, reverseVars>>

\* ------------------------------------------------------------ helpers

\* proofreadOutput.correctness >= Config.TRANSLATION_CORRECTNESS_THRESHOLD
AcceptsStrictly(score) == score > threshold
Accepts(score) == score >= threshold

\* chain: `for (let i = 0; i < MAX_PROOFREAD_ATTEMPTS; i++)`
ChainLoopContinuesOffByOne(n) == n <= MAX_PROOFREAD_ATTEMPTS
ChainLoopStopsEarly(n) == n < MAX_PROOFREAD_ATTEMPTS - 1
ChainLoopContinues(n) == n < MAX_PROOFREAD_ATTEMPTS

\* loop: `for (let i = 0; i < MAX_TRANSLATION_ATTEMPTS; i++)`
LoopLoopStopsEarly(n) == n < MAX_TRANSLATION_ATTEMPTS - 1
LoopLoopContinuesOffByOne(n) == n <= MAX_TRANSLATION_ATTEMPTS
LoopLoopContinues(n) == n < MAX_TRANSLATION_ATTEMPTS

\* loop: `histories.push({ jpText: ja, proofreadResult: proofread })`
LoopHistoryEntryOfCorrected(jpText, text, score) ==
  [jpText |-> text,
   proofreadResult |-> [proofreadText |-> text, correctness |-> score]]
LoopHistoryEntry(jpText, text, score) ==
  [jpText |-> jpText,
   proofreadResult |-> [proofreadText |-> text, correctness |-> score]]

\* loop: `return histories[histories.length - 1].proofreadResult.proofreadText`
LoopExhaustedCandidate(h) == h[Len(h)].jpText
LoopExhaustedResult(h) == h[Len(h)].proofreadResult.proofreadText

\* Which faults make the call in progress try again.
\* loop: the catch clauses `continue` on OutputParserException, SyntaxError
\* and TimeoutError and rethrow everything else; chain: withRetry retries
\* on every error (its default onFailedAttempt never aborts).
RetryableTimeoutOnly(kind) ==
  IF impl = "loop" THEN kind \in {"timeout"} ELSE TRUE
Retryable(kind) ==
  IF impl = "loop" THEN kind \in {"malformed", "timeout"} ELSE TRUE

\* How many tries one oracle call gets.
\* loop: `for (let i = 0; i < 5; i++)`; chain: stopAfterAttempt
MaxTries == IF impl = "loop" THEN LLM_LOOP_TRIES ELSE MAX_LLM_RETRY_ATTEMPTS

\* the texts of the earlier rounds that the proofreading prompt lists
\* chain: makeIssues, which lists nothing unless histories.length > 1
makeIssues(h) ==
  IF Len(h) > 1 THEN [k \in 1..Len(h) |-> h[k].proofreadText] ELSE << >>
\* loop: `req.histories.map(h => ...h.jpText...)`
loopIssues(h) == [k \in 1..Len(h) |-> h[k].jpText]

issues == IF impl = "chain" THEN makeIssues(histories) ELSE loopIssues(histories)

\* the state of a translator that has just been called
TranslateStart ==
  /\ pc = "etoj"
  /\ etojOutput = [isJapanese |-> FALSE, ja |-> EMPTY]
  /\ ja = EMPTY
  /\ histories = << >>
  /\ i = 0
  /\ retryCorrectness = 0
  /\ tries = 0
  /\ answer = EMPTY
  /\ result = EMPTY
  /\ rounds = 0
  /\ etojInvocations = 0
  /\ proofInvocations = 0
  /\ accepted = FALSE
  /\ roundLog = << >>
  /\ faulted = FALSE

\* ------------------------------------------------------------ MdProcessorImpl
\* A document is the list of the blocks under its root, each known by its
\* kind; the block at position k is the node of identity k.
\*   heading    a heading
\*   paragraph  a paragraph of at most MAX_CHUNK_SIZE characters
\*   chunked    a longer paragraph, split in NumChunks chunks
\*   image      a paragraph that is an image link, at most MAX_CHUNK_SIZE long
\*   longimage  a longer one whose "![..](..)" closes within the first chunk
\*   dataimage  a longer one whose "(..." closes after the first chunk
\*   code       a node that is neither a heading nor a paragraph
BlockKinds ==
  {"heading", "paragraph", "chunked", "image", "longimage", "dataimage", "code"}

Docs == UNION {[1..n -> BlockKinds] : n \in 1..MaxBlocks}

\* the split of a long paragraph (RecursiveCharacterTextSplitter)
NumChunks == 2

\* Blocks at positions of the same parity have the same content, so that a
\* document can hold structurally identical siblings.
contentAt(k) == k % 2

\* A text: `form` says what it is, `of` is its content, `part` the chunk
\* number in the paragraph (0 for a whole block), `ja` whether it is the
\* translator's new text for it, `suffix` what follows " | " in a heading.
Text(form, of, part) ==
  [form |-> form, of |-> of, part |-> part, ja |-> FALSE, suffix |-> "none"]

NoText == Text("none", 0, 0)
EmptyText == Text("empty", 0, 0)

\* processor.stringify(node), by the kind of the block
stringifyNode(d, k) ==
  CASE d[k] = "heading" -> Text("heading", contentAt(k), 0)
    [] d[k] = "paragraph" -> Text("plain", contentAt(k), 0)
    [] d[k] = "chunked" -> Text("long", contentAt(k), 0)
    [] d[k] = "image" -> Text("image", contentAt(k), 0)
    [] d[k] = "longimage" -> Text("longimage", contentAt(k), 0)
    [] d[k] = "dataimage" -> Text("dataimage", contentAt(k), 0)
    [] OTHER -> Text("code", contentAt(k), 0)

\* targetText.length > MAX_CHUNK_SIZE
isLong(kind) == kind \in {"chunked", "longimage", "dataimage"}

\* doc.pageContent of the p-th document of splitter.splitDocuments
pageContent(d, k, p) ==
  CASE d[k] = "chunked" -> Text("chunk", contentAt(k), p)
    [] d[k] = "longimage" /\ p = 1 -> Text("image-head", contentAt(k), p)
    [] d[k] = "dataimage" /\ p = 1 -> Text("image-open", contentAt(k), p)
    [] OTHER -> Text("image-tail", contentAt(k), p)

\* targetText.match(/^[!]\[.*?\]\(.*?\)/)
matchesImage(t) == t.form \in {"image", "image-head"}

\* a node of the tree: `id` is its identity (0 for a node made by a later
\* parse), `text` is what it stringifies to, as the list of the texts that
\* were joined with "\n"
Node(d, k) ==
  [id |-> k,
   kind |-> IF d[k] = "heading" THEN "heading"
            ELSE IF d[k] = "code" THEN "code" ELSE "paragraph",
   text |-> <<stringifyNode(d, k)>>]

\* processor.parse(translated).children
parse(translated) == <<[id |-> 0, kind |-> "parsed", text |-> translated]>>

\* { type: 'blockquote', children: [tnode.node] }
Blockquote(d, k) == [id |-> 0, kind |-> "blockquote", text |-> Node(d, k).text]

\* the ITargetNode pushed for a block, or for one chunk of it
Tnode(d, k, type, targetText) ==
  [node |-> k, targetText |-> targetText, type |-> type,
   replaced |-> FALSE, replaceNodes |-> <<>>]

\* the tnodes parseMd pushes for the block at position k
tnodesOf(d, k) ==
  IF d[k] = "code" THEN <<>>
  ELSE IF isLong(d[k])
    THEN [p \in 1..NumChunks |-> Tnode(d, k, "text-chunk", pageContent(d, k, p))]
    ELSE <<Tnode(d, k, "text", stringifyNode(d, k))>>

RECURSIVE parseMdFrom(_, _)
parseMdFrom(d, k) ==
  IF k > Len(d) THEN <<>> ELSE tnodesOf(d, k) \o parseMdFrom(d, k + 1)

\* parseMd: the tnodes of the document, in document order
parseMd(d) == parseMdFrom(d, 1)

\* node.type === 'heading' || node.type === 'paragraph'
isTarget(kind) == kind # "code"
\* a walk that takes every node to have its position
hasPositionUnchecked(k, u) == TRUE
\* node.position, for the block at position k when the block u has none
hasPosition(k, u) == k # u
\* parseMd: the callback throws `node.position is null` for some node
parseMdThrows(d, u) ==
  \E k \in 1..Len(d) : isTarget(d[k]) /\ ~hasPosition(k, u)

\* what translator.translate may return for a text: nothing (''), the text it
\* was given, that text with the heading markers of the source, or a new text
Answers == {"empty", "same", "marked", "ja"}

\* srcText.replace(/^#+\s*/g, '')
stripMarkers(srcText) == [srcText EXCEPT !.form = "plain"]

\* the translator's answer as a string
dstTextOf(given, srcText, ans) ==
  CASE ans = "empty" -> EmptyText
    [] ans = "same" -> given
    [] ans = "marked" -> srcText
    [] OTHER -> [given EXCEPT !.ja = TRUE]

\* translateHeadings, for the answer of the translator
translateHeadings(quote, tnode, ans) ==
  LET srcText == tnode.targetText
      dstText == dstTextOf(stripMarkers(srcText), srcText, ans)
  IN IF dstText = EmptyText \/ srcText = dstText
       THEN srcText
       ELSE IF quote
         THEN [srcText EXCEPT !.suffix = IF dstText.ja THEN "ja" ELSE "plain"]
         ELSE [dstText EXCEPT !.form = "heading"]

\* translateParagraph, for the answer of the translator
translateParagraph(tnode, ans) ==
  LET dstText == dstTextOf(tnode.targetText, tnode.targetText, ans)
  IN IF dstText = EmptyText THEN tnode.targetText
     ELSE IF dstText = tnode.targetText THEN tnode.targetText
     ELSE dstText

\* the replacement as MdProcessorImpl made it before ctx.quoteOriginal
\* existed: the quote of the original is always there
makeParagraphReplaceNodesAlwaysQuoting(quote, d, translated, ts, j) ==
  [ts EXCEPT ![j].replaced = TRUE,
             ![j].replaceNodes =
                parse(translated) \o <<Blockquote(d, ts[j].node)>>]

\* makeParagraphReplaceNodes(ctx, translated, tnode), on the tnode list
makeParagraphReplaceNodes(quote, d, translated, ts, j) ==
  [ts EXCEPT ![j].replaced = TRUE,
             ![j].replaceNodes =
                parse(translated) \o
                (IF quote THEN <<Blockquote(d, ts[j].node)>> ELSE <<>>)]

\* a comparison of the two nodes by what they hold
sameNodeByStructure(child, d, k) ==
  child.kind = Node(d, k).kind /\ child.text = Node(d, k).text

\* tnode.parent.children[i] === tnode.node: the same object
sameNode(child, d, k) == child.id = k

\* the index in the child list of the node of a tnode (0 when it is not there)
indexOfNode(cs, d, k) ==
  IF \E at \in 1..Len(cs) : sameNode(cs[at], d, k)
    THEN CHOOSE at \in 1..Len(cs) :
           sameNode(cs[at], d, k) /\ \A h \in 1..(at - 1) : ~sameNode(cs[h], d, k)
    ELSE 0

\* children.splice(i, 1, ...replaceNodes)
splice(cs, at, new) == SubSeq(cs, 1, at - 1) \o new \o SubSeq(cs, at + 1, Len(cs))

\* recreateAst: the loop over the tnodes from the j-th on
RECURSIVE recreateFrom(_, _, _, _)
recreateFrom(cs, d, ts, j) ==
  IF j > Len(ts) THEN cs
  ELSE LET at == indexOfNode(cs, d, ts[j].node)
       IN recreateFrom(IF at # 0 /\ ts[j].replaced
                          THEN splice(cs, at, ts[j].replaceNodes) ELSE cs,
                       d, ts, j + 1)

\* new MdDocId(file, nodeNo)
MdDocId(file, nodeNo) == <<file, nodeNo>>
NoId == << >>
NoCall == [sent |-> NoText, translated |-> NoText, id |-> NoId]

\* the state of this component in the specifications of the others
DocStart ==
  /\ quoteOriginal = TRUE
  /\ doc = <<>>
  /\ unpositioned = 0
  /\ children = <<>>
  /\ tnodes = <<>>
  /\ dpc = "done"
  /\ tindex = 0
  /\ chunkTnode = 0
  /\ translatedChunks = <<>>
  /\ calls = <<>>

\* ----------------------------------------------------------- MdxProcessorImpl
\* The lines of an admonition block, each known by its kind; the line at
\* position i is told from the others by i.
\*   open    ":::" and a name, as ":::info"
\*   close   ":::" alone
\*   colons  more than three colons, with or without a name, as "::::"
\*   body    a line that does not begin with ":::"
\*   blank   the empty string that split leaves after the last line break
MarkerKinds == {"open", "close", "colons"}

\* targetText.match(/^:::+(\S+)?/): the block begins with a marker line
MdxBlocks ==
  UNION {{b \in [1..n -> MarkerKinds \cup {"body"}] : b[1] \in MarkerKinds}
           : n \in 1..MaxLines}

\* line.match(/^:::(\S+)?/)
admonitionsMaches(kind) == kind \in MarkerKinds

\* admonitionsMaches[1]: what follows the first three colons, when not a space
hasGroup(kind) == kind \in {"open", "colons"}

\* text.trim() !== '', for the positions of the lines gathered in `text`
notBlank(ls, t) == \E h \in 1..Len(t) : ls[t[h]] = "body"

\* the paragraph node pushed for the marker line at position at
MarkerNode(at) == [kind |-> "marker", of |-> <<at>>, ja |-> FALSE]

\* translateDocusaurusAdminition(ctx, tnode, text), for the translator's answer
translateDocusaurusAdminition(t, ans) ==
  IF ans \in {"empty", "same"}
    THEN <<>>
    ELSE <<[kind |-> "parsed", of |-> t, ja |-> TRUE],
           [kind |-> "blockquote", of |-> t, ja |-> FALSE]>>

\* the state of this component in the specifications of the others
MdxStart ==
  /\ lines = <<>>
  /\ mpc = "done"
  /\ lineNo = 0
  /\ textLines = <<>>
  /\ replaceNodes = <<>>
  /\ bodies = <<>>

\* ----------------------------------------------- makeTargetTextWithContext
MAX_TOKENS == 500
MIN_APPEND_TOKENS == MAX_TOKENS \div 5

\* the lengths of the documents, in characters
DocLengths == {100 * n : n \in 1..MaxDocLen}

\* the offsets at which a node can begin or end
Offsets(len) == {50 * n : n \in 0..(len \div 50)}

\* what countToken can report, whatever the window
TokenCounts == {0, 250, 400, 499, 500, 800}

\* the most passes the loop is followed for
MaxIterations == MaxDocLen + 2

\* md.substring(from, to)
substring(from, to) == [from |-> from, to |-> to]

\* while (tokens < MAX_TOKENS)
underBudget(t) == t < MAX_TOKENS

\* a test that gives up as soon as one edge is at a boundary of the document
atABoundary(s, e, len) == s = 0 \/ e = len

\* if (start === 0 && end === eot) break
atBothBoundaries(s, e, len) == s = 0 /\ e = len

\* half of what is missing, without the floor of MIN_APPEND_TOKENS
appendOfHalf(t) == (MAX_TOKENS - t) \div 2

\* `append`: Math.floor((MAX_TOKENS - tokens) / 2), at least MIN_APPEND_TOKENS
appendOf(t) ==
  IF (MAX_TOKENS - t) \div 2 < MIN_APPEND_TOKENS
    THEN MIN_APPEND_TOKENS
    ELSE (MAX_TOKENS - t) \div 2

\* `start` moved back without the floor of 0
startAfterUnclamped(s, t) == IF s > 0 THEN s - appendOf(t) ELSE s
\* `start` after one pass
startAfter(s, t) ==
  IF s > 0 THEN (IF s - appendOf(t) < 0 THEN 0 ELSE s - appendOf(t)) ELSE s

\* `end` after one pass
endAfter(e, len, t) ==
  IF e < len THEN (IF e + appendOf(t) > len THEN len ELSE e + appendOf(t))
  ELSE e

\* the state of this component in the specifications of the others
ContextStart ==
  /\ eot = 0
  /\ position = [start |-> 0, end |-> 0]
  /\ start = 0
  /\ end = 0
  /\ targetTextWithContext = substring(0, 0)
  /\ tokens = 0
  /\ cpc = "returned"
  /\ counted = substring(0, 0)
  /\ iterations = 0

\* ------------------------------------------- parseMd, the split into chunks
\* A string is the sequence of its pieces: a run of characters of one line
\* (the characters `from` to `to` of the line `line`), a line break, or the
\* translator's text for the p-th chunk.
MAX_CHUNK_SIZE == 1000

Seg(l, a, b) == [what |-> "seg", line |-> l, from |-> a, to |-> b]
NL == [what |-> "nl", line |-> 0, from |-> 0, to |-> 0]
JaOf(p) == [what |-> "ja", line |-> p, from |-> 0, to |-> 0]

\* the lengths a line of a paragraph can have
LineLengths == {300, 600, 999, 1500}

\* the paragraphs: the lengths of their lines
Paragraphs == UNION {[1..n -> LineLengths] : n \in 1..MaxParaLines}

\* s.length
RECURSIVE strLength(_)
strLength(s) ==
  IF s = <<>> THEN 0
  ELSE (IF Head(s).what = "seg" THEN Head(s).to - Head(s).from + 1 ELSE 1)
       + strLength(Tail(s))

\* processor.stringify(node): the lines, each followed by a line break
RECURSIVE stringifyLines(_, _)
stringifyLines(lens, l) ==
  IF l > Len(lens) THEN <<>>
  ELSE <<Seg(l, 1, lens[l]), NL>> \o stringifyLines(lens, l + 1)

stringifyParagraph(lens) == stringifyLines(lens, 1)

\* s.trim(): the line breaks at both ends go
RECURSIVE trimStart(_)
trimStart(s) ==
  IF s # <<>> /\ Head(s).what = "nl" THEN trimStart(Tail(s)) ELSE s

RECURSIVE trimEnd(_)
trimEnd(s) ==
  IF s # <<>> /\ s[Len(s)].what = "nl"
    THEN trimEnd(SubSeq(s, 1, Len(s) - 1)) ELSE s

trim(s) == trimEnd(trimStart(s))

\* joinDocs(docs, separator) with the empty separator of keepSeparator: the
\* list holding the trimmed text, or no text when nothing is left of it
joinDocs(s) == IF trim(s) = <<>> THEN <<>> ELSE <<trim(s)>>

\* text.split(/(?=\n)/) without the empty strings: a cut before every line
\* break
RECURSIVE splitOnSeparator(_, _, _)
splitOnSeparator(s, current, done) ==
  IF s = <<>>
    THEN (IF current = <<>> THEN done ELSE Append(done, current))
  ELSE IF Head(s).what = "nl"
    THEN splitOnSeparator(Tail(s), <<NL>>,
                          IF current = <<>> THEN done ELSE Append(done, current))
    ELSE splitOnSeparator(Tail(s), Append(current, Head(s)), done)

\* s.substring(a - 1, b): the characters a to b of the string, counted from 1
RECURSIVE substr(_, _, _)
substr(s, a, b) ==
  IF s = <<>> \/ b < 1 THEN <<>>
  ELSE LET h == Head(s)
           n == IF h.what = "seg" THEN h.to - h.from + 1 ELSE 1
           rest == substr(Tail(s), a - n, b - n)
       IN IF a > n THEN rest
          ELSE IF h.what = "seg"
            THEN <<Seg(h.line,
                       h.from + (IF a > 1 THEN a - 1 ELSE 0),
                       IF b < n THEN h.from + b - 1 ELSE h.to)>> \o rest
            ELSE <<h>> \o rest

\* mergeSplits over the single characters of a string (the split on the
\* separator ''): the characters are gathered MAX_CHUNK_SIZE at a time
RECURSIVE mergeCharacters(_, _)
mergeCharacters(s, offset) ==
  IF offset > strLength(s) THEN <<>>
  ELSE joinDocs(substr(s, offset, offset + MAX_CHUNK_SIZE - 1)) \o
       mergeCharacters(s, offset + MAX_CHUNK_SIZE)

\* mergeSplits(splits, ''): the splits are gathered as long as the chunk stays
\* within chunkSize; with chunkOverlap 0 nothing is carried over
RECURSIVE mergeSplits(_, _, _)
mergeSplits(splits, currentDoc, total) ==
  IF splits = <<>> THEN joinDocs(currentDoc)
  ELSE LET d == Head(splits)
           n == strLength(d)
       IN IF total + n > MAX_CHUNK_SIZE /\ currentDoc # <<>>
            THEN joinDocs(currentDoc) \o mergeSplits(Tail(splits), d, n)
            ELSE mergeSplits(Tail(splits), currentDoc \o d, total + n)

\* the splits gathered in the chunks that are merged, when there are any
flushGood(goodSplits) ==
  IF goodSplits = <<>> THEN <<>> ELSE mergeSplits(goodSplits, <<>>, 0)

\* _splitText(text, ['\n', '']), the loop over the splits: a split shorter
\* than chunkSize waits to be merged, a longer one is split by characters
RECURSIVE splitLoop(_, _)
splitLoop(splits, goodSplits) ==
  IF splits = <<>> THEN flushGood(goodSplits)
  ELSE IF strLength(Head(splits)) < MAX_CHUNK_SIZE
    THEN splitLoop(Tail(splits), Append(goodSplits, Head(splits)))
    ELSE flushGood(goodSplits) \o mergeCharacters(Head(splits), 1) \o
         splitLoop(Tail(splits), <<>>)

\* splitter.splitDocuments([new Document({ pageContent: targetText })]): the
\* pageContent of each document, in order
splitDocuments(targetText) ==
  IF \E h \in 1..Len(targetText) : targetText[h].what = "nl"
    THEN splitLoop(splitOnSeparator(targetText, <<>>, <<>>), <<>>)
    ELSE mergeCharacters(targetText, 1)

\* translatedChunks.join('\n')
RECURSIVE joinChunks(_)
joinChunks(chunks) ==
  IF chunks = <<>> THEN <<>>
  ELSE IF Len(chunks) = 1 THEN Head(chunks)
  ELSE Head(chunks) \o <<NL>> \o joinChunks(Tail(chunks))

\* s.slice(-1) === '\n'
endsWithBreak(s) == s # <<>> /\ s[Len(s)].what = "nl"

\* what translateParagraph returns for the p-th chunk: the chunk itself, or
\* the translator's text followed by `breaks` line breaks
translatedChunk(chunk, p, same, breaks) ==
  IF same THEN chunk ELSE <<JaOf(p)>> \o [h \in 1..breaks |-> NL]

\* translateNodes: what is pushed on translatedChunks for a translated chunk
pushedChunk(translated, targetText) ==
  IF endsWithBreak(translated) /\ ~endsWithBreak(targetText)
    THEN SubSeq(translated, 1, Len(translated) - 1)
    ELSE translated

\* the state of this component in the specifications of the others
SplitStart ==
  /\ para = <<>>
  /\ spc = "joined"
  /\ pageContents = <<>>
  /\ pushedChunks = <<>>
  /\ joinedText = <<>>

\* ----------------------------------------------- ReverseCheckTranslatorImpl
\* the Japanese texts the translation call can answer with
JaTexts == {1, 2}

\* what choiceTranslation can parse as choiceNo: a number, null, or no
\* property at all
ChoiceNo(no) == [kind |-> "number", no |-> no]
ChoiceNos ==
  {ChoiceNo(no) : no \in -1..MAX_TRANSLATION_ATTEMPTS}
    \cup {[kind |-> "null", no |-> 0], [kind |-> "undefined", no |-> 0]}
NoChoice == [kind |-> "none", no |-> 0]

\* caches.push({ correctness: correctness, japaneseTranslated: jpResponse })
TranslateCache(score, text) == [correctness |-> score, ja |-> text]

\* `caches[i].correctness.correctness > maxCorrectness`
isHigher(score, maxCorrectness) == score > maxCorrectness

\* the loop that finds `maxIndex`, from the k-th cache on (indices from 0)
RECURSIVE maxIndexFrom(_, _, _, _)
maxIndexFrom(cs, k, maxCorrectness, maxIndex) ==
  IF k > Len(cs) THEN maxIndex
  ELSE IF isHigher(cs[k].correctness, maxCorrectness)
    THEN maxIndexFrom(cs, k + 1, cs[k].correctness, k - 1)
    ELSE maxIndexFrom(cs, k + 1, maxCorrectness, maxIndex)

\* `lastChoice.choiceNo < caches.length && 0 <= lastChoice.choiceNo`: null
\* compares as 0, undefined compares as NaN
inRange(choice, n) ==
  CASE choice.kind = "number" -> choice.no < n /\ 0 <= choice.no
    [] choice.kind = "null" -> 0 < n
    [] OTHER -> FALSE

\* `sagfeIndex`
sagfeIndex(cs, choice) ==
  IF inRange(choice, Len(cs))
    THEN choice
    ELSE ChoiceNo(maxIndexFrom(cs, 1, 0, 0))

\* the state of this component in the specifications of the others
ReverseStart ==
  /\ caches = << >>
  /\ rpc = "done"
  /\ pass = 0
  /\ lastChoice = NoChoice
  /\ returned = EMPTY

\* ----------------------------------------------------- IpynbProcessorImpl
\* Strings are sequences of characters; LF is the line break.
LF == "\n"

\* (cell.source as string[]).join('')
RECURSIVE join(_)
join(source) ==
  IF source = << >> THEN << >> ELSE Head(source) \o join(Tail(source))

\* result.split('\n'): the pieces between the line breaks, which are
\* dropped; the empty string gives one empty piece
RECURSIVE split(_)
split(s) ==
  IF s = << >> THEN << << >> >>
  ELSE LET rest == split(Tail(s)) IN
       IF Head(s) = LF THEN << << >> >> \o rest
       ELSE << <<Head(s)>> \o Head(rest) >> \o Tail(rest)

\* a cell: nbformat lets `source` be an array of lines or a single string
\* (sourceIsArray = FALSE, the string is source[1])
Cell(type, isArray, source) ==
  [cell_type |-> type, sourceIsArray |-> isArray, source |-> source]

Notebook(cells, nbformat) == [cells |-> cells, nbformat |-> nbformat]

\* cell.cell_type === 'markdown'
isMarkdownOrAny(cell) == TRUE
isMarkdown(cell) == cell.cell_type = "markdown"

\* the inputs: the lines of a source keep their line break, the last may not
Sources ==
  { << >>, << <<"a">> >>, << <<"a", LF>> >>, << <<"a", LF>>, <<"a">> >> }
MarkdownCells ==
  {Cell("markdown", TRUE, src) : src \in Sources}
    \cup {Cell("markdown", FALSE, << <<"a", LF, "a">> >>)}
OtherCells ==
  {Cell("code", TRUE, << <<"a", LF>>, <<"a">> >>), Cell("raw", TRUE, << <<"a">> >>)}
CellLists ==
  UNION {[1..n -> MarkdownCells \cup OtherCells] : n \in 0..MaxCells}
Notebooks == {Notebook(cells, v) : cells \in CellLists, v \in {3, 4}}

\* `data`: text JSON.parse rejects, or a notebook written with some indent
IpynbText(valid, indent, nb) ==
  [valid |-> valid, indent |-> indent, json |-> nb]
NoNotebook == Notebook(<< >>, 0)
NoIpynbText == IpynbText(FALSE, 0, NoNotebook)
IpynbTexts ==
  {NoIpynbText} \cup {IpynbText(TRUE, ind, nb) : ind \in {1, 2}, nb \in Notebooks}

\* what the inner processor may return for md: md itself, or a translation
ProcessResults(md) == {md, <<"j">>, <<"j", LF, "j">>}

\* the state of this component in the specifications of the others
IpynbStart ==
  /\ ipynbData = NoIpynbText
  /\ json = NoNotebook
  /\ ipc = "failed"
  /\ cellNo = 0
  /\ ipynbOut = NoIpynbText
  /\ processCalls = << >>

\* ------------------------------------------------------------ FileWalker

\* The enumerated paths are 1..NumFiles, in glob order; a path's number
\* also stands for its path relative to the base directory, which is the
\* key of its hash record and the relative path of its output file.
Files == 1..NumFiles
Datas == 1..MaxData

\* what `glob` found at each path: the four kinds of path that walk tells
\* apart, in turn
FileType(f) ==
  CASE f % 4 = 1 -> "md"    \* docs/a.md, docs/sub/b.md, ...
    [] f % 4 = 2 -> "dir"   \* docs/sub, ...
    [] f % 4 = 3 -> "gitmd" \* docs/.git/hooks/readme.md, ...
    [] OTHER -> "png"       \* docs/sub/logo.png, ...

\* fs.lstatSync(file).isDirectory()
isDirectory(f) == FileType(f) = "dir"
\* file.match(/\/\.git\//)
inGitDir(f) == FileType(f) = "gitmd"
\* path.extname(file).toLowerCase()
extname(f) ==
  CASE FileType(f) \in {"md", "gitmd"} -> ".md"
    [] FileType(f) = "png" -> ".png"
    [] OTHER -> ""
\* a factory that has a processor for every file with an extension
getProcessorOfAnyExtension(ext) == ext # ""
\* MdProcessorFactoryImpl.getProcessor(ext) !== undefined
getProcessor(ext) == ext \in {".md", ".mdx", ".ipynb"}

\* crypto.createHash('sha256').update(data).digest('hex')
sha256(d) == <<"sha256", d>>
NoHash == << >>
Hashes == {sha256(d) : d \in Datas}

\* files of the output tree
NoFile == [kind |-> "none", of |-> 0]
Translated(d) == [kind |-> "translated", of |-> d]
Copied(d) == [kind |-> "copied", of |-> d]
\* a file that somebody else keeps in the output tree (the output directory
\* is meant to be kept under git: its .git directory holds git's own files)
Foreign == [kind |-> "foreign", of |-> 0]
\* fs.existsSync(outputFilePath)
existsSync(f) == outFiles[f] # NoFile

\* walk: `files = glob.globSync(pattern)`, the paths the source tree holds
files == Files \ srcGone
\* the paths that the `for (const file of files)` loop has yet to visit
remaining == {f \in files : f > index}
\* the path the loop visits next
nextFile == CHOOSE f \in remaining : \A g \in remaining : f <= g

\* syncDelete: `!relativeSrcFiles.includes(relativeDstFile)`
hasNoSourceOrIsAny(f) == TRUE
hasNoSource(f) == f \notin files
\* syncDelete: the output files that its loop unlinks: those that are not
\* under a .git directory and have no enumerated source path
unlinked == {f \in Files : existsSync(f) /\ ~inGitDir(f) /\ hasNoSource(f)}

\* walk: the test that makes it `continue` with "no modified"
NoModifiedIgnoringForce(exists, stored, hash, overwrite) ==
  exists /\ stored # NoHash /\ stored = hash
NoModified(exists, stored, hash, overwrite) ==
  exists /\ stored # NoHash /\ stored = hash /\ ~overwrite

\* MdHash.renewHash(hash) / new MdHash(relativeSrcFile, hash): the hash of
\* the record that walk saves
renewHashKeepsOld(stored, hash) == IF stored = NoHash THEN hash ELSE stored
renewHash(stored, hash) == hash

\* ------------------------------------------------------------ JsonClient

\* new MdHash(file, hash); `get id() { return this.file }`
MdHash(file, hash) == [file |-> file, hash |-> hash]
id(entity) == entity.file
\* JSON.stringify of one entity: its own fields (the getter `id` is not one)
stringify(entity) == [file |-> entity.file, hash |-> entity.hash]
\* MdHashEntityFactoryImpl.create(obj)
create(obj) == MdHash(obj.file, obj.hash)

undefined == [loaded |-> FALSE, entries |-> << >>]
Loaded(entries) == [loaded |-> TRUE, entries |-> entries]
absent == [exists |-> FALSE, text |-> << >>]
Written(text) == [exists |-> TRUE, text |-> text]

\* putSession: `this._rows.set(data.id, data)` - a Map keeps one value per
\* key, at the position where the key was first inserted
putSessionAppending(entries, entity) == Append(entries, entity)
putSession(entries, entity) ==
  IF \E k \in 1..Len(entries) : id(entries[k]) = id(entity)
    THEN [k \in 1..Len(entries) |->
            IF id(entries[k]) = id(entity) THEN entity ELSE entries[k]]
    ELSE Append(entries, entity)

\* deleteSession: `this._rows.delete(id)`
deleteSession(entries, key) == SelectSeq(entries, LAMBDA e : id(e) # key)

\* loadSession: the cached Map, or a new Map filled from the file
RECURSIVE putAll(_, _)
putAll(entries, objs) ==
  IF objs = << >> THEN entries
  ELSE putAll(putSession(entries, create(Head(objs))), Tail(objs))
\* a client that keeps no session
cachedNever == FALSE
\* loadSession: `if (this._rows)`
cached == _rows.loaded
\* loadSession gets to `fs.readFileSync(this.jsonPath, 'utf-8')`
readsFile == ~cached /\ jsonFile.exists
loadSession ==
  IF cached THEN _rows
  ELSE Loaded(putAll(<< >>, IF jsonFile.exists THEN jsonFile.text ELSE << >>))

\* writeSession: JSON.stringify(Array.from(this._rows.values())), written
\* over the file
writeSession(entries) ==
  Written([k \in 1..Len(entries) |-> stringify(entries[k])])

StoreStart ==
  /\ _rows = undefined
  /\ jsonFile = absent
  /\ latest = [f \in Files |-> NoHash]
  /\ storeLog = [renewed |-> FALSE, deleted |-> FALSE, reads |-> 0]

\* ------------------------------------------------------------ walk

\* the state of a fresh installation: nothing translated yet
WalkStart ==
  /\ srcData = [f \in Files |-> 1]
  /\ outFiles = [f \in Files |-> NoFile]
  /\ rows = [f \in Files |-> NoHash]
  /\ IS_OVERWRITE = FALSE
  /\ SYNC_DELETE = FALSE
  /\ srcGone = {}
  /\ wpc = "idle"
  /\ index = 0
  /\ data = 0
  /\ mdHash = NoHash
  /\ ctx = [file |-> 0, nodeNo |-> 1]
  /\ oracleCalls = [f \in Files |-> 0]
  /\ visit = [f \in Files |-> "pending"]
  /\ lastOk = [f \in Files |-> 0]

InitWalk ==
  /\ WalkStart
  /\ impl = "chain"
  /\ threshold = TRANSLATION_CORRECTNESS_THRESHOLD
  /\ TranslateStart
  /\ StoreStart
  /\ IpynbStart
  /\ ReverseStart
  /\ SplitStart
  /\ ContextStart
  /\ DocStart
  /\ MdxStart

\* between two runs somebody edits a source file
EditSource(f, d) ==
  /\ wpc \in {"idle", "aborted"}
  /\ ~isDirectory(f)
  /\ d # srcData[f]
  /\ srcData' = [srcData EXCEPT ![f] = d]
  /\ UNCHANGED <<outFiles, rows, IS_OVERWRITE, SYNC_DELETE, srcGone, wpc,
                 index, data, mdHash, ctx, oracleCalls, visit, lastOk>>
  /\ UNCHANGED nonWalkVars

\* between two runs somebody removes an output file
RemoveOutput(f) ==
  /\ wpc \in {"idle", "aborted"}
  /\ existsSync(f)
  /\ outFiles' = [outFiles EXCEPT ![f] = NoFile]
  /\ UNCHANGED <<srcData, rows, IS_OVERWRITE, SYNC_DELETE, srcGone, wpc,
                 index, data, mdHash, ctx, oracleCalls, visit, lastOk>>
  /\ UNCHANGED nonWalkVars

\* main: a run starts; Config.IS_OVERWRITE = request.force;
\* Config.SYNC_DELETE = request.delete; walker.walk(...)
StartWalk(force, delete) ==
  /\ wpc \in {"idle", "aborted"}
  /\ IS_OVERWRITE' = force
  /\ SYNC_DELETE' = delete
  /\ wpc' = "loop"
  /\ index' = 0
  /\ data' = 0
  /\ mdHash' = NoHash
  /\ ctx' = [file |-> 0, nodeNo |-> 1]
  /\ oracleCalls' = [f \in Files |-> 0]
  /\ visit' = [f \in Files |-> "pending"]
  /\ UNCHANGED <<srcData, outFiles, rows, srcGone, lastOk>>
  /\ UNCHANGED nonWalkVars

\* walk: one pass of `for (const file of files)` up to its first await
VisitFile ==
  LET f == nextFile
      hash == sha256(srcData[f])
  IN
  /\ wpc = "loop"
  /\ remaining # {}
  /\ index' = f
  /\ IF isDirectory(f) \/ inGitDir(f)
       THEN \* `continue`
            /\ visit' = [visit EXCEPT ![f] = "ignored"]
            /\ UNCHANGED <<outFiles, wpc, data, mdHash, ctx>>
       ELSE IF ~getProcessor(extname(f))
       THEN \* copyFile(file, outputFilePath)
            /\ outFiles' = [outFiles EXCEPT ![f] = Copied(srcData[f])]
            /\ visit' = [visit EXCEPT ![f] = "copied"]
            /\ UNCHANGED <<wpc, data, mdHash, ctx>>
       ELSE IF NoModified(existsSync(f), rows[f], hash, IS_OVERWRITE)
       THEN \* "no modified": `continue`
            /\ visit' = [visit EXCEPT ![f] = "skipped"]
            /\ data' = srcData[f]
            /\ mdHash' = rows[f]
            /\ UNCHANGED <<outFiles, wpc, ctx>>
       ELSE \* ctx.file = file; ctx.nodeNo = 1; mdProcessor.process(ctx, data)
            /\ visit' = [visit EXCEPT ![f] = "processing"]
            /\ data' = srcData[f]
            /\ mdHash' = rows[f]
            /\ ctx' = [file |-> f, nodeNo |-> 1]
            /\ wpc' = "processing"
            /\ UNCHANGED outFiles
  /\ UNCHANGED <<srcData, rows, IS_OVERWRITE, SYNC_DELETE, srcGone,
                 oracleCalls, lastOk>>
  /\ UNCHANGED nonWalkVars

\* process: the translator calls the oracle for a block of the file
ProcessOracleCall ==
  /\ wpc = "processing"
  /\ oracleCalls[index] < MaxOracleCalls
  /\ oracleCalls' = [oracleCalls EXCEPT ![index] = @ + 1]
  /\ UNCHANGED <<srcData, outFiles, rows, IS_OVERWRITE, SYNC_DELETE, srcGone,
                 wpc, index, data, mdHash, ctx, visit, lastOk>>
  /\ UNCHANGED nonWalkVars

\* process resolves; writeTranslatedMd(outputFilePath, result)
ProcessReturn ==
  /\ wpc = "processing"
  /\ outFiles' = [outFiles EXCEPT ![index] = Translated(data)]
  /\ visit' = [visit EXCEPT ![index] = "written"]
  /\ wpc' = "saving"
  /\ UNCHANGED <<srcData, rows, IS_OVERWRITE, SYNC_DELETE, srcGone, index, data,
                 mdHash, ctx,
                 oracleCalls, lastOk>>
  /\ UNCHANGED nonWalkVars

\* process rejects: walk has no try/catch, the error leaves walk and main
\* logs it
ProcessThrowAfterSave ==
  /\ wpc = "processing"
  /\ wpc' = "aborted"
  /\ rows' = [rows EXCEPT ![index] = renewHash(mdHash, sha256(data))]
  /\ visit' = [visit EXCEPT ![index] = "failed"]
  /\ UNCHANGED <<srcData, outFiles, IS_OVERWRITE, SYNC_DELETE, srcGone, index,
                 data, mdHash, ctx,
                 oracleCalls, lastOk>>
  /\ UNCHANGED nonWalkVars
ProcessThrow ==
  /\ wpc = "processing"
  /\ wpc' = "aborted"
  /\ visit' = [visit EXCEPT ![index] = "failed"]
  /\ UNCHANGED <<srcData, outFiles, rows, IS_OVERWRITE, SYNC_DELETE, srcGone,
                 index, data, mdHash,
                 ctx, oracleCalls, lastOk>>
  /\ UNCHANGED nonWalkVars

\* walk: mdHash = new MdHash(...) or mdHash.renewHash(hash);
\* await this.mdHashRepository.save(mdHash)
SaveHash ==
  /\ wpc = "saving"
  /\ rows' = [rows EXCEPT ![index] = renewHash(mdHash, sha256(data))]
  /\ mdHash' = renewHash(mdHash, sha256(data))
  /\ visit' = [visit EXCEPT ![index] = "done"]
  /\ lastOk' = [lastOk EXCEPT ![index] = data]
  /\ wpc' = "loop"
  /\ UNCHANGED <<srcData, outFiles, IS_OVERWRITE, SYNC_DELETE, srcGone, index,
                 data, ctx,
                 oracleCalls>>
  /\ UNCHANGED nonWalkVars

\* walk: the loop is over; `if (Config.SYNC_DELETE) await this.syncDelete(...)`
\* and walk returns.  syncDelete unlinks every output file outside .git
\* that has no enumerated source path and deletes its hash record.
FinishWalk ==
  /\ wpc = "loop"
  /\ remaining = {}
  /\ wpc' = "idle"
  /\ IF SYNC_DELETE
       THEN /\ outFiles' = [f \in Files |->
                              IF f \in unlinked THEN NoFile ELSE outFiles[f]]
            /\ rows' = [f \in Files |->
                          IF f \in unlinked THEN NoHash ELSE rows[f]]
            /\ visit' = [f \in Files |->
                           IF f \in unlinked THEN "deleted" ELSE visit[f]]
       ELSE UNCHANGED <<outFiles, rows, visit>>
  /\ UNCHANGED <<srcData, IS_OVERWRITE, SYNC_DELETE, srcGone, index, data,
                 mdHash, ctx, oracleCalls, lastOk>>
  /\ UNCHANGED nonWalkVars

\* between two runs somebody removes a source file or directory
RemoveSource(f) ==
  /\ wpc \in {"idle", "aborted"}
  /\ f \notin srcGone
  /\ srcGone' = srcGone \cup {f}
  /\ UNCHANGED <<srcData, outFiles, rows, IS_OVERWRITE, SYNC_DELETE, wpc,
                 index, data, mdHash, ctx, oracleCalls, visit, lastOk>>
  /\ UNCHANGED nonWalkVars

\* between two runs git writes one of its own files under the .git
\* directory of the output tree
GitWritesOutput(f) ==
  /\ wpc \in {"idle", "aborted"}
  /\ inGitDir(f)
  /\ ~existsSync(f)
  /\ outFiles' = [outFiles EXCEPT ![f] = Foreign]
  /\ UNCHANGED <<srcData, rows, IS_OVERWRITE, SYNC_DELETE, srcGone, wpc,
                 index, data, mdHash, ctx, oracleCalls, visit, lastOk>>
  /\ UNCHANGED nonWalkVars

NextWalk ==
  \/ \E f \in Files, d \in Datas : EditSource(f, d)
  \/ \E f \in Files : RemoveOutput(f)
  \/ \E force \in BOOLEAN : StartWalk(force, FALSE)
  \/ VisitFile
  \/ ProcessOracleCall
  \/ ProcessReturn
  \/ ProcessThrow
  \/ SaveHash
  \/ FinishWalk

SpecWalk == InitWalk /\ [][NextWalk]_vars

\* runs with and without --delete over a source tree that loses files
NextSync ==
  \/ \E f \in Files : RemoveSource(f)
  \/ \E f \in Files : GitWritesOutput(f)
  \/ \E force \in BOOLEAN, delete \in BOOLEAN : StartWalk(force, delete)
  \/ VisitFile
  \/ ProcessOracleCall
  \/ ProcessReturn
  \/ ProcessThrow
  \/ SaveHash
  \/ FinishWalk

SpecSync == InitWalk /\ [][NextSync]_vars

TypeOKWalk ==
  /\ srcData \in [Files -> Datas]
  /\ rows \in [Files -> Hashes \cup {NoHash}]
  /\ wpc \in {"idle", "loop", "processing", "saving", "aborted"}
  /\ index \in 0..NumFiles

\* ------------------------------------------------ JsonClient operations

\* JsonClient.save(data), called by MdHashRepositoryImpl.save
save(file, hash) ==
  LET entries == putSession(loadSession.entries, MdHash(file, hash))
  IN
  /\ _rows' = Loaded(entries)
  /\ jsonFile' = writeSession(entries)
  /\ latest' = [latest EXCEPT ![file] = hash]
  /\ storeLog' = [storeLog EXCEPT
                    !.renewed = @ \/ latest[file] \notin {NoHash, hash},
                    !.reads = IF readsFile THEN @ + 1 ELSE @]
  /\ UNCHANGED nonStoreVars

\* JsonClient.deleteById(id), called by MdHashRepositoryImpl.deleteByFile
deleteById(key) ==
  LET entries == deleteSession(loadSession.entries, key)
  IN
  /\ _rows' = Loaded(entries)
  /\ jsonFile' = writeSession(entries)
  /\ latest' = [latest EXCEPT ![key] = NoHash]
  /\ storeLog' = [storeLog EXCEPT
                    !.deleted = @ \/ latest[key] # NoHash,
                    !.reads = IF readsFile THEN @ + 1 ELSE @]
  /\ UNCHANGED nonStoreVars

\* JsonClient.rows(), called by MdHashRepositoryImpl.getByFile
getByFile ==
  /\ _rows' = loadSession
  /\ storeLog' = [storeLog EXCEPT !.reads = IF readsFile THEN @ + 1 ELSE @]
  /\ UNCHANGED <<jsonFile, latest>>
  /\ UNCHANGED nonStoreVars

\* the process ends; the next run constructs a new JsonClient
NewJsonClient ==
  /\ _rows.loaded
  /\ _rows' = undefined
  /\ storeLog' = [storeLog EXCEPT !.reads = 0]
  /\ UNCHANGED <<jsonFile, latest>>
  /\ UNCHANGED nonStoreVars

InitStore ==
  /\ WalkStart
  /\ impl = "chain"
  /\ threshold = TRANSLATION_CORRECTNESS_THRESHOLD
  /\ TranslateStart
  /\ StoreStart
  /\ IpynbStart
  /\ ReverseStart
  /\ SplitStart
  /\ ContextStart
  /\ DocStart
  /\ MdxStart

\* the keys of the store are relative paths of files, never of directories
NextStore ==
  \/ \E f \in Files, h \in Hashes : ~isDirectory(f) /\ save(f, h)
  \/ \E f \in Files : ~isDirectory(f) /\ deleteById(f)
  \/ getByFile
  \/ NewJsonClient

SpecStore == InitStore /\ [][NextStore]_vars

\* ------------------------------------------------- MdProcessorImpl.process
\* the answers the translator can give for the j-th tnode
answersFor(j) ==
  IF doc[tnodes[j].node] = "heading" THEN Answers ELSE Answers \ {"marked"}

\* translateNodes: the body of the loop for a tnode that is not to be
\* translated (not a text, or an image link)
SkipNode ==
  /\ dpc = "translate"
  /\ tindex < Len(tnodes)
  /\ LET j == tindex + 1
         tnode == tnodes[j]
     IN /\ \/ tnode.type \notin {"text", "text-chunk"}
           \/ matchesImage(tnode.targetText)
        /\ tnodes' = IF tnode.type \in {"text", "text-chunk"}
                       THEN [tnodes EXCEPT ![j].type = ":::"]
                       ELSE tnodes
        /\ tindex' = j
        /\ calls' = Append(calls, NoCall)
  /\ UNCHANGED unpositioned
  /\ UNCHANGED <<quoteOriginal, doc, children, dpc, chunkTnode,
                 translatedChunks>>
  /\ UNCHANGED nonDocVars

\* translateNodes: the body of the loop for a tnode that is translated, the
\* translator answering `ans`
TranslateNode(ans) ==
  /\ dpc = "translate"
  /\ tindex < Len(tnodes)
  /\ LET j == tindex + 1
         tnode == tnodes[j]
         flush == chunkTnode # 0 /\ tnode.type # "text-chunk"
         joined == translatedChunks
         flushed ==
           IF flush /\ joined # <<tnodes[chunkTnode].targetText>>
             THEN makeParagraphReplaceNodes(quoteOriginal, doc, joined,
                                            tnodes, j)
             ELSE tnodes
         chunkTnode1 == IF flush THEN 0 ELSE chunkTnode
         starts == tnode.type = "text-chunk" /\ chunkTnode1 = 0
         chunks1 == IF starts THEN <<>> ELSE translatedChunks
     IN /\ tnode.type \in {"text", "text-chunk"}
        /\ ~matchesImage(tnode.targetText)
        /\ ans \in answersFor(j)
        /\ chunkTnode' = IF starts THEN j ELSE chunkTnode1
        /\ IF doc[tnode.node] = "heading"
             THEN LET translated == translateHeadings(quoteOriginal, tnode, ans)
                  IN /\ tnodes' = [flushed EXCEPT
                                     ![j].replaced = TRUE,
                                     ![j].replaceNodes = parse(<<translated>>)]
                     /\ translatedChunks' = chunks1
                     /\ calls' = Append(calls,
                                   [sent |-> stripMarkers(tnode.targetText),
                                    translated |-> translated,
                                    id |-> MdDocId(ctx.file, ctx.nodeNo)])
             ELSE LET translated == translateParagraph(tnode, ans)
                  IN /\ IF tnode.type = "text-chunk"
                          THEN /\ translatedChunks' = Append(chunks1, translated)
                               /\ tnodes' = flushed
                          ELSE /\ translatedChunks' = chunks1
                               /\ tnodes' = makeParagraphReplaceNodes(
                                              quoteOriginal, doc,
                                              <<translated>>, flushed, j)
                     /\ calls' = Append(calls,
                                   [sent |-> tnode.targetText,
                                    translated |-> translated,
                                    id |-> MdDocId(ctx.file, ctx.nodeNo)])
        /\ tindex' = j
  /\ UNCHANGED unpositioned
  /\ UNCHANGED <<quoteOriginal, doc, children, dpc>>
  /\ UNCHANGED nonDocVars

\* translateNodes: translator.translate rejects, and process with it
TranslateRejects ==
  /\ dpc = "translate"
  /\ tindex < Len(tnodes)
  /\ tnodes[tindex + 1].type \in {"text", "text-chunk"}
  /\ ~matchesImage(tnodes[tindex + 1].targetText)
  /\ dpc' = "failed"
  /\ UNCHANGED unpositioned
  /\ UNCHANGED <<quoteOriginal, doc, children, tnodes, tindex, chunkTnode,
                 translatedChunks, calls>>
  /\ UNCHANGED nonDocVars

\* translateNodes: after the loop
EndTranslateNodes ==
  /\ dpc = "translate"
  /\ tindex = Len(tnodes)
  /\ tnodes' = IF chunkTnode # 0 /\
                  translatedChunks # <<tnodes[chunkTnode].targetText>>
                 THEN makeParagraphReplaceNodes(quoteOriginal, doc,
                        translatedChunks, tnodes, chunkTnode)
                 ELSE tnodes
  /\ chunkTnode' = 0
  /\ dpc' = "recreate"
  /\ UNCHANGED unpositioned
  /\ UNCHANGED <<quoteOriginal, doc, children, tindex, translatedChunks,
                 calls>>
  /\ UNCHANGED nonDocVars

\* recreateAst
recreateAst ==
  /\ dpc = "recreate"
  /\ children' = recreateFrom(children, doc, tnodes, 1)
  /\ dpc' = "done"
  /\ UNCHANGED unpositioned
  /\ UNCHANGED <<quoteOriginal, doc, tnodes, tindex, chunkTnode,
                 translatedChunks, calls>>
  /\ UNCHANGED nonDocVars

\* process: `await this.parseMd(data)`, which resolves with the tnodes or
\* rejects, and process with it
parseMdReturns ==
  /\ dpc = "parse"
  /\ IF parseMdThrows(doc, unpositioned)
       THEN /\ dpc' = "failed"
            /\ UNCHANGED tnodes
       ELSE /\ dpc' = "translate"
            /\ tnodes' = parseMd(doc)
  /\ UNCHANGED <<quoteOriginal, doc, unpositioned, children, tindex,
                 chunkTnode, translatedChunks, calls>>
  /\ UNCHANGED nonDocVars

\* process(ctx, data) is called: processor.parse(md) has made the tree
InitDoc ==
  /\ WalkStart
  /\ impl = "chain"
  /\ threshold = TRANSLATION_CORRECTNESS_THRESHOLD
  /\ TranslateStart
  /\ StoreStart
  /\ IpynbStart
  /\ ReverseStart
  /\ SplitStart
  /\ ContextStart
  /\ MdxStart
  /\ quoteOriginal \in BOOLEAN
  /\ doc \in Docs
  /\ unpositioned \in 0..Len(doc)
  /\ children = [k \in 1..Len(doc) |-> Node(doc, k)]
  /\ tnodes = <<>>
  /\ dpc = "parse"
  /\ tindex = 0
  /\ chunkTnode = 0
  /\ translatedChunks = <<>>
  /\ calls = <<>>

NextDoc ==
  \/ parseMdReturns
  \/ SkipNode
  \/ \E ans \in Answers : TranslateNode(ans)
  \/ TranslateRejects
  \/ EndTranslateNodes
  \/ recreateAst

SpecDoc == InitDoc /\ [][NextDoc]_vars

\* ------------------------------------------- MdxProcessorImpl.translateNodes
\* the body of the loop over the lines, the translator answering `ans` when
\* the line is a closing marker that ends a body
AdmonitionLine(ans) ==
  /\ mpc = "lines"
  /\ lineNo < Len(lines)
  /\ LET at == lineNo + 1
         translates == /\ admonitionsMaches(lines[at])
                       /\ ~hasGroup(lines[at])
                       /\ notBlank(lines, textLines)
     IN /\ ans \in IF translates THEN {"empty", "same", "ja"} ELSE {"none"}
        /\ IF admonitionsMaches(lines[at])
             THEN /\ replaceNodes' =
                       replaceNodes \o
                       (IF translates
                          THEN translateDocusaurusAdminition(textLines, ans)
                          ELSE <<>>) \o
                       <<MarkerNode(at)>>
                  /\ textLines' = <<>>
             ELSE /\ textLines' = Append(textLines, at)
                  /\ replaceNodes' = replaceNodes
        /\ bodies' = IF translates
                       THEN Append(bodies, [sent |-> textLines, answer |-> ans])
                       ELSE bodies
        /\ lineNo' = at
  /\ UNCHANGED <<lines, mpc>>
  /\ UNCHANGED nonMdxVars

\* after the loop: the lines gathered after the last marker, and the
\* assignment of tnode.replaceNodes
AdmonitionEnd(ans) ==
  /\ mpc = "lines"
  /\ lineNo = Len(lines)
  /\ ans \in IF notBlank(lines, textLines) THEN {"empty", "same", "ja"} ELSE {"none"}
  /\ replaceNodes' =
       replaceNodes \o
       (IF notBlank(lines, textLines)
          THEN translateDocusaurusAdminition(textLines, ans) ELSE <<>>)
  /\ bodies' = IF notBlank(lines, textLines)
                 THEN Append(bodies, [sent |-> textLines, answer |-> ans])
                 ELSE bodies
  /\ textLines' = textLines
  /\ mpc' = "done"
  /\ UNCHANGED <<lines, lineNo>>
  /\ UNCHANGED nonMdxVars

\* translator.translate rejects, and translateNodes with it
AdmonitionRejects ==
  /\ mpc = "lines"
  /\ notBlank(lines, textLines)
  /\ \/ lineNo = Len(lines)
     \/ /\ lineNo < Len(lines)
        /\ admonitionsMaches(lines[lineNo + 1])
        /\ ~hasGroup(lines[lineNo + 1])
  /\ mpc' = "failed"
  /\ UNCHANGED <<lines, lineNo, textLines, replaceNodes, bodies>>
  /\ UNCHANGED nonMdxVars

\* translateNodes(ctx, result), at a tnode of type ':::'
InitMdx ==
  /\ WalkStart
  /\ impl = "chain"
  /\ threshold = TRANSLATION_CORRECTNESS_THRESHOLD
  /\ TranslateStart
  /\ StoreStart
  /\ IpynbStart
  /\ ReverseStart
  /\ SplitStart
  /\ ContextStart
  /\ DocStart
  /\ lines \in {Append(b, "blank") : b \in MdxBlocks}
  /\ mpc = "lines"
  /\ lineNo = 0
  /\ textLines = <<>>
  /\ replaceNodes = <<>>
  /\ bodies = <<>>

NextMdx ==
  \/ \E ans \in {"none", "empty", "same", "ja"} : AdmonitionLine(ans)
  \/ \E ans \in {"none", "empty", "same", "ja"} : AdmonitionEnd(ans)
  \/ AdmonitionRejects

SpecMdx == InitMdx /\ [][NextMdx]_vars

\* ----------------------------------- makeTargetTextWithContext, the loop
\* one pass of the while loop, countToken reporting `count` for the new window
GrowWindow(count) ==
  /\ cpc = "loop"
  /\ underBudget(tokens)
  /\ ~atBothBoundaries(start, end, eot)
  /\ iterations < MaxIterations
  /\ start' = startAfter(start, tokens)
  /\ end' = endAfter(end, eot, tokens)
  /\ targetTextWithContext' = substring(start', end')
  /\ tokens' = count
  /\ counted' = targetTextWithContext'
  /\ iterations' = iterations + 1
  /\ UNCHANGED <<eot, position, cpc>>
  /\ UNCHANGED nonContextVars

\* the end of the loop, by its condition or by the break, and the return
ReturnWindow ==
  /\ cpc = "loop"
  /\ ~underBudget(tokens) \/ atBothBoundaries(start, end, eot)
  /\ cpc' = "returned"
  /\ UNCHANGED <<eot, position, start, end, targetTextWithContext, tokens,
                 counted, iterations>>
  /\ UNCHANGED nonContextVars

\* makeTargetTextWithContext(md, node), up to the loop
InitContext ==
  /\ WalkStart
  /\ impl = "chain"
  /\ threshold = TRANSLATION_CORRECTNESS_THRESHOLD
  /\ TranslateStart
  /\ StoreStart
  /\ IpynbStart
  /\ ReverseStart
  /\ SplitStart
  /\ DocStart
  /\ MdxStart
  /\ eot \in DocLengths
  /\ position \in {q \in [start : Offsets(eot), end : Offsets(eot)] :
                      q.start < q.end}
  /\ start = position.start
  /\ end = position.end
  /\ targetTextWithContext = substring(start, end)
  /\ tokens \in TokenCounts
  /\ cpc = "loop"
  /\ counted = substring(start, end)
  /\ iterations = 0

NextContext ==
  \/ \E count \in TokenCounts : GrowWindow(count)
  \/ ReturnWindow

SpecContext == InitContext /\ [][NextContext]_vars

\* the loop is not left to idle: a pass or the return that can be taken is
\* taken
SpecContextLive == SpecContext /\ WF_vars(NextContext)

\* ------------------------------------ a long paragraph through its chunks
\* parseMd: the paragraph is longer than MAX_CHUNK_SIZE and is split
SplitParagraph ==
  /\ spc = "parsed"
  /\ strLength(stringifyParagraph(para)) > MAX_CHUNK_SIZE
  /\ pageContents' = splitDocuments(stringifyParagraph(para))
  /\ spc' = "chunks"
  /\ UNCHANGED <<para, pushedChunks, joinedText>>
  /\ UNCHANGED nonSplitVars

\* translateNodes: the next chunk is translated and pushed on
\* translatedChunks
PushChunk(same, breaks) ==
  /\ spc = "chunks"
  /\ Len(pushedChunks) < Len(pageContents)
  /\ LET p == Len(pushedChunks) + 1
     IN pushedChunks' =
          Append(pushedChunks,
                 pushedChunk(translatedChunk(pageContents[p], p, same, breaks),
                             pageContents[p]))
  /\ UNCHANGED <<para, spc, pageContents, joinedText>>
  /\ UNCHANGED nonSplitVars

\* translateNodes: the chunks are joined
JoinChunks ==
  /\ spc = "chunks"
  /\ Len(pushedChunks) = Len(pageContents)
  /\ joinedText' = joinChunks(pushedChunks)
  /\ spc' = "joined"
  /\ UNCHANGED <<para, pageContents, pushedChunks>>
  /\ UNCHANGED nonSplitVars

\* parseMd at a paragraph node
InitSplit ==
  /\ WalkStart
  /\ impl = "chain"
  /\ threshold = TRANSLATION_CORRECTNESS_THRESHOLD
  /\ TranslateStart
  /\ StoreStart
  /\ IpynbStart
  /\ ReverseStart
  /\ DocStart
  /\ MdxStart
  /\ ContextStart
  /\ para \in Paragraphs
  /\ spc = "parsed"
  /\ pageContents = <<>>
  /\ pushedChunks = <<>>
  /\ joinedText = <<>>

NextSplit ==
  \/ SplitParagraph
  \/ \E breaks \in 0..2 : PushChunk(FALSE, breaks)
  \/ PushChunk(TRUE, 0)
  \/ JoinChunks

SpecSplit == InitSplit /\ [][NextSplit]_vars

\* --------------------------------- ReverseCheckTranslatorImpl.translate

\* one pass of the inner loop: translateToJp, translateToEn and
\* checkTranslated answer, and what follows the loop when this pass ends it
ReverseRound(isJapanese, text, score) ==
  LET pushed == Append(caches, TranslateCache(score, text))
      ends == Accepts(score) \/ ~(Len(pushed) < MAX_TRANSLATION_ATTEMPTS)
  IN
  /\ rpc = "rounds"
  /\ IF isJapanese
       THEN \* return ''
            /\ rpc' = "done"
            /\ returned' = EMPTY
            /\ UNCHANGED <<caches, pass>>
       ELSE IF ~ends
       THEN /\ caches' = pushed
            /\ UNCHANGED <<rpc, pass, returned>>
       ELSE IF Accepts(score) \/ Len(pushed) = MAX_TRANSLATION_ATTEMPTS
       THEN /\ caches' = pushed
            /\ IF Len(pushed) = 1
                 THEN \* return caches[0].japaneseTranslated.ja
                      /\ rpc' = "done"
                      /\ returned' = pushed[1].ja
                 ELSE \* await choiceTranslation(...)
                      /\ rpc' = "choice"
                      /\ returned' = returned
            /\ UNCHANGED pass
       ELSE IF pass + 1 < RETRY_CORRECTNESS_LIMIT
       THEN \* the next pass of the outer loop
            /\ caches' = << >>
            /\ pass' = pass + 1
            /\ UNCHANGED <<rpc, returned>>
       ELSE \* throw new Error('failed to translate')
            /\ caches' = pushed
            /\ pass' = pass + 1
            /\ rpc' = "failed"
            /\ UNCHANGED returned
  /\ UNCHANGED lastChoice
  /\ UNCHANGED nonReverseVars

\* one of the three calls of a pass rejects, and translate with it
ReverseRoundRejects ==
  /\ rpc = "rounds"
  /\ rpc' = "failed"
  /\ UNCHANGED <<caches, pass, lastChoice, returned>>
  /\ UNCHANGED nonReverseVars

\* choiceTranslation answers: `sagfeIndex` and the return; caches[null] is
\* undefined, and reading its japaneseTranslated throws a TypeError
ReverseChoice(choice) ==
  /\ rpc = "choice"
  /\ lastChoice' = choice
  /\ IF sagfeIndex(caches, choice).kind = "number"
       THEN /\ rpc' = "done"
            /\ returned' = caches[sagfeIndex(caches, choice).no + 1].ja
       ELSE /\ rpc' = "failed"
            /\ UNCHANGED returned
  /\ UNCHANGED <<caches, pass>>
  /\ UNCHANGED nonReverseVars

\* choiceTranslation rejects, and translate with it
ReverseChoiceRejects ==
  /\ rpc = "choice"
  /\ rpc' = "failed"
  /\ UNCHANGED <<caches, pass, lastChoice, returned>>
  /\ UNCHANGED nonReverseVars

\* translate(srcLangText, isTitleBlock) is called; the threshold is the
\* highest score but one can be below it
InitReverse ==
  /\ WalkStart
  /\ impl = "loop"
  /\ threshold = MaxScore
  /\ TranslateStart
  /\ StoreStart
  /\ IpynbStart
  /\ SplitStart
  /\ ContextStart
  /\ DocStart
  /\ MdxStart
  /\ caches = << >>
  /\ rpc = "rounds"
  /\ pass = 0
  /\ lastChoice = NoChoice
  /\ returned = EMPTY

NextReverse ==
  \/ \E isJapanese \in BOOLEAN, text \in JaTexts, score \in Scores :
       ReverseRound(isJapanese, text, score)
  \/ ReverseRoundRejects
  \/ \E choice \in ChoiceNos : ReverseChoice(choice)
  \/ ReverseChoiceRejects

SpecReverse == InitReverse /\ [][NextReverse]_vars

\* ------------------------------------------ IpynbProcessorImpl.process
\* JSON.parse(data) returns the notebook
IpynbParse ==
  /\ ipc = "start"
  /\ ipynbData.valid
  /\ json' = ipynbData.json
  /\ cellNo' = 1
  /\ ipc' = "cells"
  /\ UNCHANGED <<ipynbData, ipynbOut, processCalls>>
  /\ UNCHANGED nonIpynbVars

\* JSON.parse(data) throws a SyntaxError
IpynbParseRejects ==
  /\ ipc = "start"
  /\ ~ipynbData.valid
  /\ ipc' = "failed"
  /\ UNCHANGED <<ipynbData, json, cellNo, ipynbOut, processCalls>>
  /\ UNCHANGED nonIpynbVars

\* a cell of another type: the loop goes on
IpynbSkipCell ==
  /\ ipc = "cells"
  /\ cellNo <= Len(json.cells)
  /\ ~isMarkdown(json.cells[cellNo])
  /\ cellNo' = cellNo + 1
  /\ UNCHANGED <<ipynbData, json, ipc, ipynbOut, processCalls>>
  /\ UNCHANGED nonIpynbVars

\* a markdown cell: join, the inner processor returns res, split
IpynbMarkdownCell(res) ==
  /\ ipc = "cells"
  /\ cellNo <= Len(json.cells)
  /\ isMarkdown(json.cells[cellNo])
  /\ json.cells[cellNo].sourceIsArray
  /\ LET md == join(json.cells[cellNo].source) IN
       /\ res \in ProcessResults(md)
       /\ processCalls' = Append(processCalls,
            [cell |-> cellNo, md |-> md, ok |-> TRUE, result |-> res])
  /\ json' = [json EXCEPT !.cells[cellNo].source = split(res)]
  /\ cellNo' = cellNo + 1
  /\ UNCHANGED <<ipynbData, ipc, ipynbOut>>
  /\ UNCHANGED nonIpynbVars

\* a markdown cell whose source is a string: `join` is not a function
IpynbJoinThrows ==
  /\ ipc = "cells"
  /\ cellNo <= Len(json.cells)
  /\ isMarkdown(json.cells[cellNo])
  /\ ~json.cells[cellNo].sourceIsArray
  /\ ipc' = "failed"
  /\ UNCHANGED <<ipynbData, json, cellNo, ipynbOut, processCalls>>
  /\ UNCHANGED nonIpynbVars

\* a markdown cell: the inner processor rejects, and so does process
IpynbInnerRejects ==
  /\ ipc = "cells"
  /\ cellNo <= Len(json.cells)
  /\ isMarkdown(json.cells[cellNo])
  /\ json.cells[cellNo].sourceIsArray
  /\ processCalls' = Append(processCalls,
       [cell |-> cellNo, md |-> join(json.cells[cellNo].source),
        ok |-> FALSE, result |-> << >>])
  /\ ipc' = "failed"
  /\ UNCHANGED <<ipynbData, json, cellNo, ipynbOut>>
  /\ UNCHANGED nonIpynbVars

\* after the last cell: JSON.stringify(json, null, 1)
IpynbReturn ==
  /\ ipc = "cells"
  /\ cellNo > Len(json.cells)
  /\ ipynbOut' = IpynbText(TRUE, 1, json)
  /\ ipc' = "returned"
  /\ UNCHANGED <<ipynbData, json, cellNo, processCalls>>
  /\ UNCHANGED nonIpynbVars

\* process(ctx, data) is called
InitIpynb ==
  /\ WalkStart
  /\ impl = "loop"
  /\ threshold = TRANSLATION_CORRECTNESS_THRESHOLD
  /\ TranslateStart
  /\ StoreStart
  /\ ReverseStart
  /\ SplitStart
  /\ ContextStart
  /\ DocStart
  /\ MdxStart
  /\ ipynbData \in IpynbTexts
  /\ json = NoNotebook
  /\ ipc = "start"
  /\ cellNo = 0
  /\ ipynbOut = NoIpynbText
  /\ processCalls = << >>

NextIpynb ==
  \/ IpynbParse
  \/ IpynbParseRejects
  \/ IpynbSkipCell
  \/ \E res \in {<< >>, <<"a">>, <<"a", LF>>, <<"a", LF, "a">>,
                    <<"j">>, <<"j", LF, "j">>} : IpynbMarkdownCell(res)
  \/ IpynbJoinThrows
  \/ IpynbInnerRejects
  \/ IpynbReturn

SpecIpynb == InitIpynb /\ [][NextIpynb]_vars

\* ------------------------------------------------------------ Init
InitTranslate ==
  /\ WalkStart
  /\ impl \in Impls
  /\ threshold = TRANSLATION_CORRECTNESS_THRESHOLD
  /\ TranslateStart
  /\ StoreStart
  /\ IpynbStart
  /\ ReverseStart
  /\ SplitStart
  /\ ContextStart
  /\ DocStart
  /\ MdxStart

\* ------------------------------------------------------------ translate

\* One try of an oracle call failed with `kind`: try again while tries are
\* left and the fault is retryable, otherwise the error leaves translate.
FailedTry(kind) ==
  /\ UNCHANGED nonTranslateVars
  /\ faulted' = TRUE
  /\ IF Retryable(kind) /\ tries + 1 < MaxTries
       THEN /\ tries' = tries + 1
            /\ pc' = pc
       ELSE /\ tries' = tries + 1
            /\ pc' = "failed"
  /\ UNCHANGED <<impl, threshold, etojOutput, ja, histories, i,
                 retryCorrectness, answer, result, rounds, accepted,
                 roundLog>>

\* the translation call's oracle invocation ends in a fault
EtojFault(kind) ==
  /\ pc = "etoj"
  /\ etojInvocations' = etojInvocations + 1
  /\ UNCHANGED proofInvocations
  /\ FailedTry(kind)

\* the proofreading call's oracle invocation ends in a fault
ProofreadFault(kind) ==
  /\ pc = "proofread"
  /\ proofInvocations' = proofInvocations + 1
  /\ UNCHANGED etojInvocations
  /\ FailedTry(kind)

\* chain: the translation chain yields a parsed object
ChainEtojResponse(isJapanese, text) ==
  /\ UNCHANGED nonTranslateVars
  /\ impl = "chain"
  /\ pc = "etoj"
  /\ etojInvocations' = etojInvocations + 1
  /\ etojOutput' = [isJapanese |-> isJapanese, ja |-> text]
  /\ ja' = text
  /\ histories' = << [proofreadText |-> text, correctness |-> 0] >>
  /\ answer' = EMPTY
  /\ IF ChainLoopContinues(0)
       THEN /\ pc' = "proofread"
            /\ rounds' = rounds + 1
            /\ result' = result
       ELSE /\ pc' = "done"
            /\ rounds' = rounds
            /\ result' = EMPTY
  /\ i' = 0
  /\ tries' = 0
  /\ UNCHANGED <<impl, threshold, retryCorrectness, proofInvocations,
                 accepted, roundLog, faulted>>

\* chain: the proofreading chain yields a parsed object
ChainProofreadResponse(text, score) ==
  /\ UNCHANGED nonTranslateVars
  /\ impl = "chain"
  /\ pc = "proofread"
  /\ proofInvocations' = proofInvocations + 1
  /\ answer' = text
  /\ accepted' = (accepted \/ score >= threshold)
  /\ roundLog' = Append(roundLog, [candidate |-> ja, proofreadText |-> text,
                                   correctness |-> score])
  /\ tries' = 0
  /\ IF Accepts(score)
       THEN /\ pc' = "done"
            /\ result' = text
            /\ UNCHANGED <<histories, i, rounds>>
       ELSE /\ histories' = Append(histories, [proofreadText |-> text,
                                               correctness |-> score])
            /\ i' = i + 1
            /\ IF ChainLoopContinues(i + 1)
                 THEN /\ pc' = "proofread"
                      /\ rounds' = rounds + 1
                      /\ result' = result
                 ELSE /\ pc' = "done"
                      /\ rounds' = rounds
                      /\ result' = text
  /\ UNCHANGED <<impl, threshold, etojOutput, ja, retryCorrectness,
                 etojInvocations, faulted>>

\* loop: translateToJp parses an answer
LoopEtojResponse(isJapanese, text) ==
  /\ UNCHANGED nonTranslateVars
  /\ impl = "loop"
  /\ pc = "etoj"
  /\ etojInvocations' = etojInvocations + 1
  /\ IF ~isJapanese /\ text = EMPTY
       THEN \* `continue`: an answer without a translation is tried again
            /\ tries' = tries + 1
            /\ pc' = IF tries + 1 < LLM_LOOP_TRIES THEN "etoj" ELSE "failed"
            /\ faulted' = TRUE
            /\ UNCHANGED <<etojOutput, ja, i, rounds, result>>
       ELSE /\ faulted' = faulted
            /\ etojOutput' = [isJapanese |-> isJapanese, ja |-> text]
            /\ ja' = text
            /\ tries' = 0
            /\ i' = 0
            /\ IF isJapanese
                 THEN /\ pc' = "done"
                      /\ result' = EMPTY
                      /\ rounds' = rounds
                 ELSE IF LoopLoopContinues(0)
                 THEN /\ pc' = "proofread"
                      /\ rounds' = rounds + 1
                      /\ result' = result
                 ELSE /\ pc' = "failed"
                      /\ rounds' = rounds
                      /\ result' = result
  /\ UNCHANGED <<impl, threshold, histories, retryCorrectness, answer,
                 proofInvocations, accepted, roundLog>>

\* loop: proofreadTranslation parses an answer
LoopProofreadResponse(text, score) ==
  LET pushed == Append(histories, LoopHistoryEntry(ja, text, score))
  IN
  /\ UNCHANGED nonTranslateVars
  /\ impl = "loop"
  /\ pc = "proofread"
  /\ proofInvocations' = proofInvocations + 1
  /\ accepted' = (accepted \/ score >= threshold)
  /\ roundLog' = Append(roundLog, [candidate |-> ja, proofreadText |-> text,
                                   correctness |-> score])
  /\ tries' = 0
  /\ IF Accepts(score)
       THEN \* lastProofreadResult = proofread; break; return its text
            /\ histories' = pushed
            /\ pc' = "done"
            /\ result' = text
            /\ UNCHANGED <<ja, i, rounds, retryCorrectness>>
       ELSE IF LoopLoopContinues(i + 1)
       THEN /\ histories' = pushed
            /\ ja' = text
            /\ i' = i + 1
            /\ pc' = "proofread"
            /\ rounds' = rounds + 1
            /\ UNCHANGED <<result, retryCorrectness>>
       ELSE IF Len(pushed) = MAX_TRANSLATION_ATTEMPTS
       THEN \* the budget is used up: return the last corrected text
            /\ histories' = pushed
            /\ ja' = text
            /\ i' = i + 1
            /\ pc' = "done"
            /\ result' = LoopExhaustedResult(pushed)
            /\ UNCHANGED <<rounds, retryCorrectness>>
       ELSE IF retryCorrectness + 1 < RETRY_CORRECTNESS_LIMIT
       THEN \* next pass of the outer loop: start over with translateToJp
            /\ retryCorrectness' = retryCorrectness + 1
            /\ histories' = << >>
            /\ ja' = text
            /\ i' = i + 1
            /\ pc' = "etoj"
            /\ UNCHANGED <<result, rounds>>
       ELSE \* throw new Error('failed to translate')
            /\ retryCorrectness' = retryCorrectness + 1
            /\ histories' = pushed
            /\ ja' = text
            /\ i' = i + 1
            /\ pc' = "failed"
            /\ UNCHANGED <<result, rounds>>
  /\ UNCHANGED <<impl, threshold, etojOutput, answer, etojInvocations,
                 faulted>>

NextTranslate ==
  \/ \E kind \in FaultKinds : EtojFault(kind)
  \/ \E kind \in FaultKinds : ProofreadFault(kind)
  \/ \E isJapanese \in BOOLEAN, text \in {EMPTY} \cup Texts :
       ChainEtojResponse(isJapanese, text)
  \/ \E text \in {EMPTY} \cup Texts, score \in Scores :
       ChainProofreadResponse(text, score)
  \/ \E isJapanese \in BOOLEAN, text \in {EMPTY} \cup Texts :
       LoopEtojResponse(isJapanese, text)
  \/ \E text \in {EMPTY} \cup Texts, score \in Scores :
       LoopProofreadResponse(text, score)

SpecTranslate == InitTranslate /\ [][NextTranslate]_vars

\* ------------------------------------------------ properties of translate

\* the proofreading budget of the version that runs
MaxRounds ==
  IF impl = "chain" THEN MAX_PROOFREAD_ATTEMPTS ELSE MAX_TRANSLATION_ATTEMPTS

\* every round of the budget has been answered
BudgetUsed == Len(roundLog) = MaxRounds

\* no finished round has met the threshold
AllRejected == \A k \in 1..Len(roundLog) : roundLog[k].correctness < threshold

\* the candidates sent in the finished rounds, in order
RejectedCandidates == [k \in 1..Len(roundLog) |-> roundLog[k].candidate]

\* the answers of the finished rounds as the chain version stores them
RejectedOutputs ==
  [k \in 1..Len(roundLog) |->
     [proofreadText |-> roundLog[k].proofreadText,
      correctness |-> roundLog[k].correctness]]

IsPrefix(s, t) == Len(s) <= Len(t) /\ \A k \in 1..Len(s) : s[k] = t[k]

\* C1: translate starts at most the configured maximum number of
\* proofreading rounds (5) for one block; the loop counter counts rounds,
\* so the tries repeated after a malformed answer are not rounds: the
\* number of oracle invocations may exceed the budget, the rounds never do.
C1_RoundsBounded ==
  /\ rounds <= MaxRounds
  /\ Len(roundLog) <= rounds
  /\ pc = "proofread" => (rounds = i + 1 /\ Len(roundLog) = i)

C1_Witness ==
  /\ pc = "done"
  /\ rounds = MaxRounds
  /\ proofInvocations > MaxRounds

\* C2 (as stated): translate returns only after a round has scored at or
\* above the threshold, or after the whole budget has been used.
C2_ReturnsOnlyAfterAcceptOrExhaustion ==
  pc = "done" => (accepted \/ BudgetUsed)

\* C2 (amended): translate returns only after a round has scored at or above
\* the threshold, or after the whole budget has been used, or - in the
\* loop version - right after the translation call reported that the input
\* is already in the target language, in which case it returns '' and no
\* round has been started.
C2_ReturnsOnlyAfterAcceptExhaustionOrShortCircuit ==
  pc = "done" =>
    \/ accepted
    \/ BudgetUsed
    \/ /\ impl = "loop"
       /\ etojOutput.isJapanese
       /\ result = EMPTY
       /\ rounds = 0

C2_Witness ==
  /\ pc = "done"
  /\ accepted
  /\ Len(roundLog) = 3

\* C3: as soon as a round scores at or above the threshold (equality
\* included) translate is finished: it makes no further oracle call and
\* returns the corrected text of that round, which is the first round to
\* meet the threshold; when that is round 1, one translation call and one
\* proofreading call have been made (and, no try having been repeated,
\* exactly one oracle invocation each).
C3_AcceptStops ==
  (\E k \in 1..Len(roundLog) : roundLog[k].correctness >= threshold) =>
    /\ pc = "done"
    /\ accepted
    /\ result = roundLog[Len(roundLog)].proofreadText
    /\ roundLog[Len(roundLog)].correctness >= threshold
    /\ \A k \in 1..(Len(roundLog) - 1) : roundLog[k].correctness < threshold
    /\ rounds = Len(roundLog)
    /\ Len(roundLog) = 1 =>
         /\ retryCorrectness = 0
         /\ rounds = 1
         /\ ~faulted => (etojInvocations = 1 /\ proofInvocations = 1)

C3_Witness ==
  /\ pc = "done"
  /\ Len(roundLog) = 1
  /\ roundLog[1].correctness = threshold
  /\ threshold > 0
  /\ ~faulted
  /\ result = roundLog[1].proofreadText
  /\ result # roundLog[1].candidate

\* C4: when every round of the budget has scored below the threshold,
\* translate returns normally, and returns the corrected text of the last
\* round.
C4_ExhaustionReturnsLast ==
  (BudgetUsed /\ AllRejected) =>
    /\ pc = "done"
    /\ result = roundLog[MaxRounds].proofreadText

C4_Witness ==
  /\ pc = "done"
  /\ BudgetUsed
  /\ AllRejected
  /\ roundLog[MaxRounds].proofreadText # roundLog[MaxRounds].candidate

\* C5: if the translation call reports that the input is already in the
\* target language, translate returns '' and makes no proofreading call.
C5_AlreadyTargetLanguageShortCircuits ==
  etojOutput.isJapanese =>
    /\ pc = "done"
    /\ result = EMPTY
    /\ rounds = 0
    /\ proofInvocations = 0

\* C6 (as stated): in round k the history handed to the oracle is exactly
\* the k-1 candidates rejected in rounds 1..k-1, in order, and the history
\* is only ever appended to.
C6_HistoryIsExactlyTheRejectedCandidates ==
  [][/\ pc' = "proofread" => issues' = RejectedCandidates'
     /\ IsPrefix(histories, histories')]_vars

\* C6 (amended): in round k the loop version hands the oracle exactly the
\* k-1 candidates rejected in rounds 1..k-1, in order; the chain version
\* keeps the initial translation followed by the k-1 answers rejected in
\* rounds 1..k-1, in order (k entries), and lists all k of them in the
\* prompt of every round k >= 2 and nothing in round 1.  In both versions
\* the history is only ever appended to.
HistoryHanded ==
  pc = "proofread" =>
    /\ Len(roundLog) = rounds - 1
    /\ impl = "loop" =>
         /\ Len(histories) = rounds - 1
         /\ issues = RejectedCandidates
         /\ \A k \in 1..Len(histories) :
              histories[k] =
                [jpText |-> roundLog[k].candidate,
                 proofreadResult |->
                   [proofreadText |-> roundLog[k].proofreadText,
                    correctness |-> roundLog[k].correctness]]
    /\ impl = "chain" =>
         /\ histories =
              << [proofreadText |-> etojOutput.ja, correctness |-> 0] >>
                \o RejectedOutputs
         /\ issues = IF rounds = 1
                       THEN << >>
                       ELSE [k \in 1..rounds |-> histories[k].proofreadText]

C6_HistoryAppendOnly ==
  [][HistoryHanded' /\ IsPrefix(histories, histories')]_vars

C6_Witness ==
  /\ pc = "proofread"
  /\ rounds = 3
  /\ Len(issues) = 3
  /\ issues[2] # issues[3]

\* a step in which an oracle invocation answered with unparseable output
MalformedStep == EtojFault("malformed") \/ ProofreadFault("malformed")

\* C29: in round 1 the candidate given to the oracle is the initial
\* translation, and in every round k >= 2 it is the corrected text that
\* round k-1 produced.
C29_CandidateIsThePreviousCorrection ==
  \A k \in 1..Len(roundLog) :
    roundLog[k].candidate =
      IF k = 1 THEN etojOutput.ja ELSE roundLog[k - 1].proofreadText

\* C7: a malformed oracle answer makes the same call be tried again, up to
\* 5 tries, without advancing the proofreading counter and without
\* appending to the history; the fifth consecutive failed try makes the
\* error leave translate.
C7_MalformedRetriesSameCall ==
  [][MalformedStep =>
       /\ i' = i
       /\ histories' = histories
       /\ rounds' = rounds
       /\ roundLog' = roundLog
       /\ tries' = tries + 1
       /\ tries' <= LLM_LOOP_TRIES
       /\ IF tries' < LLM_LOOP_TRIES THEN pc' = pc ELSE pc' = "failed"]_vars

C7_Witness ==
  /\ impl = "loop"
  /\ pc = "failed"
  /\ tries = LLM_LOOP_TRIES
  /\ rounds = 2
  /\ Len(histories) = 1

\* C33: in the loop version the body of the outer retry loop runs at most
\* once: its first pass returns or throws, so `retryCorrectness` is never
\* advanced and the final `failed to translate` is never thrown.
C33_OuterRetryLoopRunsOnce ==
  impl = "loop" => retryCorrectness = 0

\* the loop version has returned after all its rounds were rejected, the one
\* path on which the inner loop ends without an accepted result
C33_Witness ==
  /\ impl = "loop"
  /\ pc = "done"
  /\ ~accepted
  /\ rounds = MAX_TRANSLATION_ATTEMPTS
  /\ Len(histories) = MAX_TRANSLATION_ATTEMPTS
  /\ result # EMPTY

\* C34: for one block the loop version makes at most 5 oracle invocations
\* for the translation and at most 5 x 5 = 25 for proofreading, 30 in all,
\* whatever the oracle answers and however its invocations fail.
C34_LoopInvocationsBounded ==
  impl = "loop" =>
    /\ etojInvocations <= 5
    /\ proofInvocations <= 5 * 5
    /\ etojInvocations + proofInvocations <= 30

\* the loop version has made all 30 invocations: the translation answered
\* on its fifth try and each of the five rounds on its fifth try
C34_Witness ==
  /\ impl = "loop"
  /\ pc = "done"
  /\ etojInvocations = 5
  /\ proofInvocations = 25
  /\ rounds = 5

\* ------------------------------------- properties of the reverse check

\* the first of the candidates that no other outscores
firstHighest(cs) ==
  CHOOSE k \in 1..Len(cs) :
    /\ \A j \in 1..Len(cs) : cs[j].correctness <= cs[k].correctness
    /\ \A j \in 1..(k - 1) : cs[j].correctness < cs[k].correctness

\* the candidate the vote stands for: the one at its index when that is one
\* of 0 .. n-1, the first highest-scoring one otherwise
voted(cs, choice) ==
  IF choice.kind = "number" /\ choice.no \in 0..(Len(cs) - 1)
    THEN cs[choice.no + 1].ja
    ELSE cs[firstHighest(cs)].ja

\* C31: with two or more candidates cached, what translate returns is the
\* candidate at the index of the vote when that index is one of 0 .. n-1
\* and the first highest-scoring candidate otherwise, and every answered
\* vote is followed by that return; with one candidate cached, it is
\* returned and no vote is called for.
C31_ReturnsTheVotedOrTheHighestCandidate ==
  /\ (rpc = "done" /\ Len(caches) >= 2) => returned = voted(caches, lastChoice)
  /\ (rpc = "done" /\ Len(caches) = 1) =>
       (returned = caches[1].ja /\ lastChoice = NoChoice)
  /\ lastChoice # NoChoice => rpc = "done"

\* ---------------------------------------- properties of the notebooks
\* the markdown cells among the first n, in cell order
RECURSIVE markdownUpTo(_, _)
markdownUpTo(cells, n) ==
  IF n = 0 THEN << >>
  ELSE IF cells[n].cell_type = "markdown"
       THEN Append(markdownUpTo(cells, n - 1), n)
       ELSE markdownUpTo(cells, n - 1)

\* the cells the inner processor was called for, in the order of the calls
CalledCells == [k \in 1..Len(processCalls) |-> processCalls[k].cell]

isPrefix(s, t) == Len(s) <= Len(t) /\ SubSeq(t, 1, Len(s)) = s

\* C35: IpynbProcessorImpl.process changes nothing of the notebook but the
\* source of markdown cells: the cells keep their number and order, a cell
\* of another type and the other fields of the notebook are as they were in
\* the input, and the inner processor is called once for each markdown cell,
\* in cell order (when process returns, for all of them; the returned text
\* holds the notebook so changed).
C35_OnlyMarkdownSourcesChange ==
  (ipynbData.valid /\ ipc # "start") =>
    LET input == ipynbData.json.cells IN
      /\ Len(json.cells) = Len(input)
      /\ json.nbformat = ipynbData.json.nbformat
      /\ \A n \in 1..Len(input) :
           /\ json.cells[n] = [input[n] EXCEPT !.source = json.cells[n].source]
           /\ input[n].cell_type # "markdown" => json.cells[n] = input[n]
           /\ json.cells[n] # input[n] =>
                \E k \in 1..Len(processCalls) :
                  processCalls[k].cell = n /\ processCalls[k].ok
      /\ ipc = "cells" => CalledCells = markdownUpTo(input, cellNo - 1)
      /\ ipc = "failed" => isPrefix(CalledCells, markdownUpTo(input, Len(input)))
      /\ ipc = "returned" =>
           /\ CalledCells = markdownUpTo(input, Len(input))
           /\ ipynbOut = IpynbText(TRUE, 1, json)

C35_Witness ==
  /\ ipc = "returned"
  /\ Len(json.cells) = 3
  /\ json.cells[1].cell_type = "markdown"
  /\ json.cells[2].cell_type = "code"
  /\ json.cells[3].cell_type = "markdown"
  /\ CalledCells = <<1, 3>>
  /\ json.cells[1].source # ipynbData.json.cells[1].source
  /\ json.cells[3].source # ipynbData.json.cells[3].source
  /\ json.cells[2] = ipynbData.json.cells[2]

\* C36: when the inner processor returns the text of a markdown cell as it
\* was given, the lines of the new cell.source concatenate to that text: the
\* line breaks are not lost between join and split.
C36_UnchangedTextKeepsItsLineBreaks ==
  \A k \in 1..Len(processCalls) :
    (processCalls[k].ok /\ processCalls[k].result = processCalls[k].md) =>
      join(json.cells[processCalls[k].cell].source) = processCalls[k].md

\* ------------------------------------------------ properties of walk

\* a source file (not a directory) with an extension some processor takes
Recognized(f) == ~isDirectory(f) /\ extname(f) \in {".md", ".mdx", ".ipynb"}

\* this step is walk's visit of path f
VisitOf(f) == wpc = "loop" /\ index' # index /\ index' = f

\* the output exists, a hash record exists and equals the hash of the
\* current content, and force-overwrite is off
SkipCondition(f) ==
  /\ outFiles[f] # NoFile
  /\ rows[f] # NoHash
  /\ rows[f] = sha256(srcData[f])
  /\ ~IS_OVERWRITE

\* what the visit of a file that falls under the skip rule must look like:
\* skipped exactly under SkipCondition, nothing touched when skipped,
\* processing started otherwise
SkipRule(f) ==
  /\ (wpc' = "loop") <=> SkipCondition(f)
  /\ wpc' = "loop" => UNCHANGED <<outFiles, rows>>
  /\ wpc' # "loop" => (wpc' = "processing" /\ ctx'.file = f)

\* a processed file gets its output written, then its hash record saved
ProcessedRule ==
  /\ (wpc = "processing" /\ wpc' = "saving") =>
       outFiles'[index] = Translated(srcData[index])
  /\ (wpc = "saving" /\ wpc' # "saving") =>
       /\ wpc' = "loop"
       /\ outFiles'[index] = Translated(srcData[index])
       /\ rows'[index] = sha256(srcData[index])

\* C8 (as stated): a source file with a recognized extension is skipped if
\* and only if its output exists, a hash record exists for it and equals
\* the hash of its content, and force-overwrite is off; otherwise it is
\* processed, its output written and its hash record saved.
C8_SkippedIffUnmodified ==
  [][/\ \A f \in Files : (VisitOf(f) /\ Recognized(f)) => SkipRule(f)
     /\ ProcessedRule]_vars

\* C8 (amended): the same for a source file with a recognized extension
\* that does not lie under a .git directory; a file under a .git directory
\* is always passed over, untouched.  A file that is not skipped is
\* processed and, when processing returns, its output is written and then
\* its hash record saved.
C8_SkippedIffUnmodifiedOutsideGit ==
  [][/\ \A f \in Files :
          /\ (VisitOf(f) /\ Recognized(f) /\ ~inGitDir(f)) => SkipRule(f)
          /\ (VisitOf(f) /\ inGitDir(f)) =>
               (wpc' = "loop" /\ UNCHANGED <<outFiles, rows>>)
     /\ ProcessedRule]_vars

C8_Witness ==
  /\ wpc = "loop"
  /\ remaining = {}
  /\ visit[1] = "skipped"
  /\ \E f \in Files : visit[f] = "done" /\ rows[f] = sha256(2)

\* C9: walking again over a source file whose content is unchanged since
\* it was last translated, with force-overwrite off and its output present,
\* skips it: the visit changes neither the output tree nor the hash store,
\* and for the rest of the walk no oracle call is made for that file and
\* its output file and hash record stay as they are.
C9_RewalkOfUnchangedFile ==
  [][\A f \in Files :
       /\ ( /\ VisitOf(f)
            /\ FileType(f) = "md"
            /\ lastOk[f] = srcData[f]
            /\ outFiles[f] # NoFile
            /\ ~IS_OVERWRITE ) =>
            /\ visit'[f] = "skipped"
            /\ wpc' = "loop"
            /\ UNCHANGED <<outFiles, rows, oracleCalls>>
       /\ (visit[f] = "skipped" /\ wpc \in {"loop", "processing", "saving"}) =>
            /\ oracleCalls'[f] = 0
            /\ outFiles'[f] = outFiles[f]
            /\ rows'[f] = rows[f]]_vars

C9_Witness ==
  /\ wpc = "idle"
  /\ visit[1] = "skipped"
  /\ lastOk[1] = 2
  /\ srcData[1] = 2
  /\ oracleCalls[1] = 0
  /\ \E f \in Files : oracleCalls[f] > 0

\* C10: a hash record is created or renewed only when the output translated
\* from the content with that hash is already in place; a step in which
\* processing fails, and every step while processing is under way, changes
\* no output file and no hash record.
C10_HashOnlyAfterOutput ==
  [][/\ \A f \in Files :
          (rows'[f] # rows[f] /\ rows'[f] # NoHash) =>
             \E d \in Datas : /\ rows'[f] = sha256(d)
                              /\ outFiles[f] = Translated(d)
                              /\ outFiles'[f] = Translated(d)
     /\ (wpc # "aborted" /\ wpc' = "aborted") => UNCHANGED <<outFiles, rows>>
     /\ (wpc = "processing" /\ wpc' # "saving") =>
          UNCHANGED <<outFiles, rows>>]_vars

C10_Witness ==
  /\ wpc = "aborted"
  /\ visit[1] = "failed"
  /\ srcData[1] = 2
  /\ rows[1] = sha256(1)
  /\ outFiles[1] = Translated(1)
  /\ oracleCalls[1] > 0

\* C13: when processing a file raises an error, walk goes on with its
\* loop, so that every remaining enumerated file is still visited.
C13_FailureDoesNotStopTheWalk ==
  [][(wpc = "processing" /\ visit'[index] = "failed") => wpc' = "loop"]_vars

\* the walk is at the pass of its loop for the path f
visits(f) == wpc = "loop" /\ remaining # {} /\ nextFile = f

SyncStep == wpc = "loop" /\ wpc' = "idle" /\ SYNC_DELETE

\* this step removes the output file at path f
Deletes(f) == outFiles[f] # NoFile /\ outFiles'[f] = NoFile

\* what a delete-sync must do when `Orphans` are the files to delete: delete
\* exactly those, remove their hash records, leave the rest as it is
SyncRule(Orphans) ==
  \A f \in Files :
    /\ Deletes(f) <=> f \in Orphans
    /\ f \in Orphans => rows'[f] = NoHash
    /\ f \notin Orphans => (outFiles'[f] = outFiles[f] /\ rows'[f] = rows[f])

OnePerPath(records) ==
  \A j, k \in 1..Len(records) : records[j].file = records[k].file => j = k

\* the sequence holds, for every path, the hash in `latest` and nothing else
HoldsLatest(records) ==
  /\ \A k \in 1..Len(records) :
        /\ records[k].file \in Files
        /\ latest[records[k].file] = records[k].hash
  /\ \A f \in Files :
        latest[f] # NoHash => \E k \in 1..Len(records) : records[k].file = f

\* C12: after any sequence of save and deleteById the store holds at most
\* one record per path: for every path saved and not deleted since, the
\* record saved last, and none for any other path; the JSON array in the
\* file is exactly the array of those records, as long as the number of
\* paths that have one (a full rewrite, nothing appended).
C12_OneRecordPerPath ==
  /\ _rows.loaded =>
        /\ OnePerPath(_rows.entries)
        /\ HoldsLatest(_rows.entries)
        /\ Len(_rows.entries) = Cardinality({f \in Files : latest[f] # NoHash})
  /\ jsonFile.exists =>
        /\ OnePerPath(jsonFile.text)
        /\ HoldsLatest(jsonFile.text)
        /\ Len(jsonFile.text) = Cardinality({f \in Files : latest[f] # NoHash})
  /\ ~jsonFile.exists => \A f \in Files : latest[f] = NoHash
  /\ (_rows.loaded /\ jsonFile.exists) =>
        /\ Len(jsonFile.text) = Len(_rows.entries)
        /\ \A k \in 1..Len(jsonFile.text) :
              /\ jsonFile.text[k].file = _rows.entries[k].file
              /\ jsonFile.text[k].hash = _rows.entries[k].hash

C12_Witness ==
  /\ _rows.loaded
  /\ storeLog.renewed
  /\ storeLog.deleted
  /\ Len(jsonFile.text) = 2
  /\ \E f \in Files : latest[f] = NoHash
  /\ jsonFile.text[1].hash # jsonFile.text[2].hash

\* this step is a save or a deleteById of the client
WritingStep ==
  \/ \E f \in Files, h \in Hashes : save(f, h)
  \/ \E f \in Files : deleteById(f)

\* C37: a JsonClient reads its file at most once, and only in the operation
\* that finds no session; an operation of a client that has its session
\* reads nothing; and after every save or deleteById the file is the one
\* written from the session: it holds the records of the session, in order,
\* and a client that loaded it would get the same session.
C37_FileReadOnceAndRewrittenFromTheSession ==
  [][/\ storeLog'.reads <= 1
     /\ (_rows.loaded /\ _rows'.loaded) => storeLog'.reads = storeLog.reads
     /\ WritingStep =>
          /\ _rows'.loaded
          /\ jsonFile' = writeSession(_rows'.entries)
          /\ putAll(<< >>, jsonFile'.text) = _rows'.entries]_vars

\* a second client has read the file that the first one wrote, once, and
\* has since deleted a record and saved another
C37_Witness ==
  /\ _rows.loaded
  /\ storeLog.reads = 1
  /\ storeLog.deleted
  /\ storeLog.renewed
  /\ Len(_rows.entries) = 2
  /\ jsonFile = writeSession(_rows.entries)

\* ------------------------------------------------ properties of process
\* the children of the root as a set
childSet == {children[at] : at \in 1..Len(children)}

\* the tnode was sent to the translator, which returned '' or the text itself
NoOpParagraph(j) ==
  /\ doc[tnodes[j].node] = "paragraph"
  /\ calls[j].sent = tnodes[j].targetText
  /\ calls[j].translated = tnodes[j].targetText

\* C14: a paragraph for which translate returned the empty string or the
\* paragraph's own text is assigned no replacement and is in the output as
\* it was: the node is still a child of the root, and no quoted copy of it
\* was added, in quote-original mode either.
C14_NoOpParagraphIsLeftAlone ==
  dpc = "done" =>
    \A j \in 1..Len(tnodes) :
      NoOpParagraph(j) =>
        /\ ~tnodes[j].replaced
        /\ Node(doc, tnodes[j].node) \in childSet
        /\ Blockquote(doc, tnodes[j].node) \notin childSet

\* the heading was sent to the translator, which returned '' or the text it
\* was given
NoOpHeading(j) ==
  /\ doc[tnodes[j].node] = "heading"
  /\ calls[j].sent = stripMarkers(tnodes[j].targetText)
  /\ \E ans \in {"empty", "same"} :
       calls[j].translated = translateHeadings(quoteOriginal, tnodes[j], ans)

\* C16: a heading for which the translator returned the empty string or the
\* heading text it was given is retained as it was: what translateHeadings
\* makes of it is the source heading, with no " | " suffix.
C16_NoOpHeadingIsRetained ==
  \A j \in 1..Len(calls) :
    NoOpHeading(j) =>
      /\ calls[j].translated = tnodes[j].targetText
      /\ tnodes[j].replaceNodes = parse(<<tnodes[j].targetText>>)

\* the tnodes of the node k that carry a replacement
replacing(k) ==
  {j \in 1..Len(tnodes) : tnodes[j].node = k /\ tnodes[j].replaced}

\* what stands for the node k after recreateAst: the replacement of the
\* first of its tnodes that has one, or the node itself
standsFor(k) ==
  IF replacing(k) = {}
    THEN <<Node(doc, k)>>
    ELSE tnodes[CHOOSE j \in replacing(k) :
                  \A h \in replacing(k) : j <= h].replaceNodes

RECURSIVE standFrom(_)
standFrom(k) ==
  IF k > Len(doc) THEN <<>> ELSE standsFor(k) \o standFrom(k + 1)

\* C17: after recreateAst the child list of the root is the list it was
\* before, where each node that has a replacement has given way to it, once
\* and at its own index, and every other child (a sibling of the same
\* structure, a block without replacement, a node that is not translated) is
\* where it was, in the same order.
C17_RecreateAstReplacesInPlace ==
  dpc = "done" => children = standFrom(1)

\* recreateAst has run on a document with two siblings of the same structure,
\* the first without replacement and the second with one
C17_Witness ==
  /\ dpc = "done"
  /\ \E k1, k2 \in 1..Len(doc) :
       /\ k1 < k2
       /\ Node(doc, k1).kind = Node(doc, k2).kind
       /\ Node(doc, k1).text = Node(doc, k2).text
       /\ replacing(k1) = {}
       /\ replacing(k2) # {}
       /\ Node(doc, k1) \in childSet
       /\ Node(doc, k2) \notin childSet

\* the tnodes of the node k
tnodesAt(k) == {j \in 1..Len(tnodes) : tnodes[j].node = k}

\* what translateParagraph returned for the chunks of the node k, in the
\* order of the chunks
translatedChunksOf(k) ==
  LET first == CHOOSE j \in tnodesAt(k) : \A h \in tnodesAt(k) : j <= h
  IN [p \in 1..Cardinality(tnodesAt(k)) |-> calls[first + p - 1].translated]

\* C18: once translateNodes is over, every paragraph that was split into
\* chunks has, on its own node, a replacement, and every replacement on its
\* node is the parse of the translated chunks of that paragraph joined in
\* their order (followed by the quote of the original in quote-original
\* mode), whatever follows the paragraph in the document.
C18_ChunksAreReassembledOnTheirParagraph ==
  dpc \in {"recreate", "done"} =>
    \A k \in 1..Len(doc) :
      doc[k] = "chunked" =>
        /\ replacing(k) # {}
        /\ \A j \in replacing(k) :
             tnodes[j].replaceNodes =
               parse(translatedChunksOf(k)) \o
               (IF quoteOriginal THEN <<Blockquote(doc, k)>> ELSE <<>>)

\* the blocks whose text matches the image-link pattern
isImage(kind) == kind \in {"image", "longimage", "dataimage"}

\* C19: no text of an image block, and no chunk of one, is ever sent to the
\* translator, and once translateNodes is over no tnode of such a block
\* carries a replacement, so that recreateAst leaves the block as it was.
C19_ImagesAreNeverSentNorReplaced ==
  /\ \A j \in 1..Len(calls) :
       isImage(doc[tnodes[j].node]) => calls[j].sent = NoText
  /\ dpc \in {"recreate", "done"} =>
       \A k \in 1..Len(doc) :
         isImage(doc[k]) => replacing(k) = {} /\ Node(doc, k) \in childSet

\* the paragraph that is not split was sent to the translator, which returned
\* a text that differs from it
TranslatedParagraph(j) ==
  /\ doc[tnodes[j].node] = "paragraph"
  /\ calls[j].sent = tnodes[j].targetText
  /\ calls[j].translated # tnodes[j].targetText

\* C21: a paragraph whose translation differs from its source is replaced, in
\* quote-original mode, by the parse of the translation followed at once by
\* a blockquote that holds the original paragraph node, and otherwise by the
\* parse of the translation alone; the output then has no blockquote at all.
\* Every replacement of a paragraph, split or not, has that shape.
C21_QuoteOriginalAddsTheQuoteAndNoQuoteDoesNot ==
  /\ \A j \in 1..Len(calls) :
       TranslatedParagraph(j) =>
         /\ tnodes[j].replaced
         /\ tnodes[j].replaceNodes =
              IF quoteOriginal
                THEN parse(<<calls[j].translated>>) \o
                     <<Blockquote(doc, tnodes[j].node)>>
                ELSE parse(<<calls[j].translated>>)
  /\ \A j \in 1..Len(tnodes) :
       (doc[tnodes[j].node] # "heading" /\ tnodes[j].replaced) =>
         /\ Len(tnodes[j].replaceNodes) = IF quoteOriginal THEN 2 ELSE 1
         /\ tnodes[j].replaceNodes[1].kind = "parsed"
         /\ quoteOriginal =>
              tnodes[j].replaceNodes[2] = Blockquote(doc, tnodes[j].node)
  /\ dpc = "done" =>
       /\ \A j \in 1..Len(calls) :
            TranslatedParagraph(j) =>
              \E at \in 1..Len(children) :
                /\ <<children[at]>> = parse(<<calls[j].translated>>)
                /\ quoteOriginal =>
                     /\ at < Len(children)
                     /\ children[at + 1] = Blockquote(doc, tnodes[j].node)
       /\ ~quoteOriginal =>
            \A at \in 1..Len(children) : children[at].kind # "blockquote"

\* a document with a translated paragraph has gone through process in
\* quote-original mode, and the quote is in the output
C21_Witness ==
  /\ dpc = "done"
  /\ quoteOriginal
  /\ \E j \in 1..Len(calls) :
       /\ TranslatedParagraph(j)
       /\ Blockquote(doc, tnodes[j].node) \in childSet

\* C28: when the node of a heading or paragraph block has no position,
\* process fails in parseMd: it never gets to translateNodes, the translator
\* has been called for no block of the document, no tnode is kept and the
\* tree is never rewritten nor returned.
C28_MissingPositionFailsBeforeAnyTranslation ==
  (unpositioned \in 1..Len(doc) /\ isTarget(doc[unpositioned])) =>
    /\ dpc \in {"parse", "failed"}
    /\ calls = <<>>
    /\ tnodes = <<>>
    /\ tindex = 0
    /\ children = [k \in 1..Len(doc) |-> Node(doc, k)]

\* process has failed on a document whose second block, a paragraph, has no
\* position, and whose first block is a heading that has one
C28_Witness ==
  /\ dpc = "failed"
  /\ Len(doc) >= 2
  /\ doc[1] = "heading"
  /\ doc[2] = "paragraph"
  /\ unpositioned = 2

\* C30: within a file the block sequence number grows from block to block,
\* so that the records of two blocks of the file are saved under different
\* ids, the later block under the larger number.
C30_LaterBlockIsSavedUnderALargerNodeNo ==
  \A a, b \in 1..Len(calls) :
    (/\ calls[a] # NoCall
     /\ calls[b] # NoCall
     /\ tnodes[a].node < tnodes[b].node) =>
      /\ calls[a].id # calls[b].id
      /\ calls[a].id[2] < calls[b].id[2]

\* ------------------------------------------------ properties of admonitions
\* the lines a text or a node is made of
lineSet(t) == {t[h] : h \in 1..Len(t)}

\* the translator returned '' or the body itself for the b-th body it got
NoOpBody(b) == bodies[b].answer \in {"empty", "same"}

\* C15: when the translation of the body of an admonition is a no-op, the
\* body is in the replacement of the block, as it was in the source.
C15_NoOpBodyIsKept ==
  mpc = "done" =>
    \A b \in 1..Len(bodies) :
      NoOpBody(b) =>
        \E r \in 1..Len(replaceNodes) :
          /\ replaceNodes[r].kind = "parsed"
          /\ replaceNodes[r].of = bodies[b].sent
          /\ ~replaceNodes[r].ja

\* the positions of the marker lines of the block
markers == {p \in 1..Len(lines) : admonitionsMaches(lines[p])}

\* where the node of the marker line p stands in the replacement (0: nowhere)
markerIndex(p) ==
  IF \E r \in 1..Len(replaceNodes) : replaceNodes[r] = MarkerNode(p)
    THEN CHOOSE r \in 1..Len(replaceNodes) : replaceNodes[r] = MarkerNode(p)
    ELSE 0

\* the marker nodes of the replacement, in its order
markerNodes == SelectSeq(replaceNodes, LAMBDA n : n.kind = "marker")

\* the body line p stands between two marker lines of the source
enclosed(p) ==
  /\ lines[p] = "body"
  /\ \E a \in markers : a < p
  /\ \E b \in markers : p < b

\* C20: in the replacement of an admonition block the marker lines of the
\* source stand as paragraphs of their own, all of them and in source order;
\* no marker line is in a text sent to the translator; and every body line
\* enclosed by two marker lines is, translated, between the nodes of the
\* nearest marker line before it and the nearest after it (the body for
\* which the translator's answer is a no-op set aside).
C20_MarkersKeptAndBodyBetweenThem ==
  /\ \A b \in 1..Len(bodies) : lineSet(bodies[b].sent) \cap markers = {}
  /\ mpc = "done" =>
       /\ Len(markerNodes) = Cardinality(markers)
       /\ \A r \in 1..Len(markerNodes) :
            /\ markerNodes[r].of[1] \in markers
            /\ r > 1 => markerNodes[r - 1].of[1] < markerNodes[r].of[1]
       /\ \A p \in 1..Len(lines) :
            (enclosed(p) /\
             ~\E b \in 1..Len(bodies) : NoOpBody(b) /\ p \in lineSet(bodies[b].sent))
            => LET before == CHOOSE a \in markers :
                              a < p /\ \A c \in markers : c < p => c <= a
                   after == CHOOSE a \in markers :
                              p < a /\ \A c \in markers : p < c => a <= c
               IN \E r \in 1..Len(replaceNodes) :
                    /\ replaceNodes[r].kind = "parsed"
                    /\ replaceNodes[r].ja
                    /\ p \in lineSet(replaceNodes[r].of)
                    /\ markerIndex(before) < r
                    /\ r < markerIndex(after)

\* ------------------------------- properties of makeTargetTextWithContext
\* C22: the window makeTargetTextWithContext returns is one for which
\* countToken reported at least MAX_TOKENS, or it is the whole document;
\* never a smaller window below the budget.
C22_ReturnedWindowMeetsBudgetOrIsWholeDocument ==
  cpc = "returned" =>
    \/ counted = targetTextWithContext /\ tokens >= MAX_TOKENS
    \/ targetTextWithContext = substring(0, eot)

\* the loop has grown the window more than once and returned it when the
\* budget was met, before the window was the whole document
C22_Witness ==
  /\ cpc = "returned"
  /\ iterations >= 2
  /\ tokens >= MAX_TOKENS
  /\ targetTextWithContext # substring(0, eot)
  /\ targetTextWithContext.from = 0 \/ targetTextWithContext.to = eot

\* C23: the loop of makeTargetTextWithContext ends, and the function
\* returns, for every document, every span of the node and every sequence
\* of answers of countToken, monotone in the window or not.
C23_WindowLoopTerminates == <>(cpc = "returned")

\* the function has returned after several passes in which countToken never
\* reported the budget, and once reported more for a smaller window than it
\* did for the whole document
C23_Witness ==
  /\ cpc = "returned"
  /\ iterations >= 2
  /\ tokens < 499
  /\ targetTextWithContext = substring(0, eot)

\* the window holds the node and lies within the document, and the text
\* held is the substring of the document between its two edges
WindowHoldsTheNode ==
  /\ 0 <= start
  /\ start <= position.start
  /\ position.start <= position.end
  /\ position.end <= end
  /\ end <= eot
  /\ targetTextWithContext = substring(start, end)

\* C32: all along makeTargetTextWithContext, 0 <= start <= the start of the
\* node <= the end of the node <= end <= the length of the document; no pass
\* of the loop moves `start` forward or `end` back; and the text held, which
\* is the one returned, is the substring of the document from start to end.
C32_WindowHoldsTheNodeAndNeverShrinks ==
  /\ []WindowHoldsTheNode
  /\ [][start' <= start /\ end' >= end]_vars

\* the function has returned a window that was grown twice, was cut at the
\* beginning of the document and is not the whole document, for a node that
\* does not begin the document
C32_Witness ==
  /\ cpc = "returned"
  /\ iterations = 2
  /\ position.start > 0
  /\ start = 0
  /\ end > position.end
  /\ end < eot

\* ------------------------------------------------ properties of the chunks
\* C24: when every chunk of a paragraph comes back from the translation as
\* it was, the join of the chunks is the text of the paragraph, character
\* for character, the line break at its end included.
C24_RejoinOfUntranslatedChunksIsTheParagraph ==
  (spc = "joined" /\ pushedChunks = pageContents) =>
    joinedText = stringifyParagraph(para)

\* the chunk begins where a line begins and ends where a line ends
onLineBoundaries(chunk) ==
  /\ chunk # <<>>
  /\ Head(chunk).what = "seg"
  /\ Head(chunk).from = 1
  /\ chunk[Len(chunk)].what = "seg"
  /\ chunk[Len(chunk)].to = para[chunk[Len(chunk)].line]

\* C25: the chunks of a paragraph longer than the ceiling are each at most
\* MAX_CHUNK_SIZE long, begin and end on line boundaries whatever the
\* lengths of the lines, and follow one another in the order of the text
\* with nothing shared and nothing left out between them.
C25_ChunksAreWholeLinesWithinTheCeiling ==
  spc \in {"chunks", "joined"} /\ para # <<>> =>
    /\ \A p \in 1..Len(pageContents) :
         /\ strLength(pageContents[p]) <= MAX_CHUNK_SIZE
         /\ onLineBoundaries(pageContents[p])
    /\ joinChunks(pageContents) = trim(stringifyParagraph(para))

\* C26: a translated chunk that is pushed on translatedChunks ends with a
\* line break only if its source chunk does.
C26_PushedChunkEndsWithBreakOnlyIfSourceDoes ==
  \A p \in 1..Len(pushedChunks) :
    endsWithBreak(pushedChunks[p]) => endsWithBreak(pageContents[p])

TypeOKTranslate ==
  /\ impl \in Impls
  /\ threshold \in Scores
  /\ pc \in {"etoj", "proofread", "done", "failed"}
  /\ i \in 0..MAX_TRANSLATION_ATTEMPTS
  /\ tries \in 0..MaxTries
  /\ rounds \in 0..(MAX_TRANSLATION_ATTEMPTS + 1)
====
